---------------------------- MODULE Spec2Model ----------------------------
(***************************************************************************)
(* Field-aware inverted-index search engine of the KnowledgeDiscovery      *)
(* repository: src/build_index.py (tokenizer, index builder, weighting)    *)
(* and src/search_engine.py (synonym loading, query parser, scorer).       *)
(*                                                                         *)
(* Representation.                                                         *)
(*  - A Python str is a sequence of one-character strings, so that every   *)
(*    character-level operation of the code (split, strip, lower, replace, *)
(*    startswith, the tokenizer's regular expression, float()) is computed *)
(*    and not assumed.                                                     *)
(*  - A Python dict whose iteration order the code relies on is a sequence *)
(*    of entries in insertion order (text_terms, Counter, scores).         *)
(*    Postings are functions doc_id -> count; build_index inserts doc_ids  *)
(*    in ascending row order, so iteration is by ascending doc_id.         *)
(*  - A Python float is a fixed-point integer: log10 is tabulated in       *)
(*    thousandths, TF and IDF are thousandths, term weights and norms are  *)
(*    hundredths, cosine scores are thousandths, numeric field values and  *)
(*    filter operands are hundredths.                                      *)
(***************************************************************************)
EXTENDS Integers, Sequences, FiniteSets, TLC

\* Body(e) with e computed first: the assignment of a local variable.  TLC
\* passes operator arguments unevaluated, and a loop written as a recursion
\* would hand on an ever longer chain of pending updates; each loop below
\* computes the state of one iteration before it enters the next
With(e, Body(_)) == IF e = e THEN Body(e) ELSE Body(e)

(***************************************************************************)
(* Characters and the str methods the code uses                            *)
(***************************************************************************)
LowerLetters ==
    {"a","b","c","d","e","f","g","h","i","j","k","l","m",
     "n","o","p","q","r","s","t","u","v","w","x","y","z"}

UpperLetters ==
    {"A","B","C","D","E","F","G","H","I","J","K","L","M",
     "N","O","P","Q","R","S","T","U","V","W","X","Y","Z"}

Digits == {"0","1","2","3","4","5","6","7","8","9"}

WhiteSpace == {" ", "\t", "\n"}

LowerOf ==
    [c \in UpperLetters |->
       CASE c = "A" -> "a" [] c = "B" -> "b" [] c = "C" -> "c" [] c = "D" -> "d"
         [] c = "E" -> "e" [] c = "F" -> "f" [] c = "G" -> "g" [] c = "H" -> "h"
         [] c = "I" -> "i" [] c = "J" -> "j" [] c = "K" -> "k" [] c = "L" -> "l"
         [] c = "M" -> "m" [] c = "N" -> "n" [] c = "O" -> "o" [] c = "P" -> "p"
         [] c = "Q" -> "q" [] c = "R" -> "r" [] c = "S" -> "s" [] c = "T" -> "t"
         [] c = "U" -> "u" [] c = "V" -> "v" [] c = "W" -> "w" [] c = "X" -> "x"
         [] c = "Y" -> "y" [] c = "Z" -> "z"]

\* str.lower()
StrLower(s) ==
    [i \in 1..Len(s) |-> IF s[i] \in UpperLetters THEN LowerOf[s[i]] ELSE s[i]]

\* str.replace(a, b) for a one-character a and b
StrReplace(s, a, b) == [i \in 1..Len(s) |-> IF s[i] = a THEN b ELSE s[i]]

\* str.replace(a, "") for a one-character a
StrRemove(s, a) == SelectSeq(s, LAMBDA c : c # a)

\* str.strip(chars): drop leading and trailing characters of the set
RECURSIVE LStrip(_, _)
LStrip(s, chars) ==
    IF s # <<>> /\ Head(s) \in chars THEN LStrip(Tail(s), chars) ELSE s

RECURSIVE RStrip(_, _)
RStrip(s, chars) ==
    IF s # <<>> /\ s[Len(s)] \in chars
    THEN RStrip(SubSeq(s, 1, Len(s) - 1), chars)
    ELSE s

StrStrip(s, chars) == RStrip(LStrip(s, chars), chars)

\* str.startswith(prefix)
StartsWith(s, prefix) ==
    Len(prefix) <= Len(s) /\ SubSeq(s, 1, Len(prefix)) = prefix

\* str.split(): split on runs of whitespace, no empty pieces
RECURSIVE SplitWsFrom(_, _, _, _)
SplitWsFrom(s, i, cur, acc) ==
    IF i > Len(s)
    THEN IF cur = <<>> THEN acc ELSE Append(acc, cur)
    ELSE IF s[i] \in WhiteSpace
         THEN SplitWsFrom(s, i + 1, <<>>, IF cur = <<>> THEN acc ELSE Append(acc, cur))
         ELSE SplitWsFrom(s, i + 1, Append(cur, s[i]), acc)

StrSplit(s) == SplitWsFrom(s, 1, <<>>, <<>>)

\* " ".join(parts)
RECURSIVE JoinSpace(_)
JoinSpace(parts) ==
    IF parts = <<>> THEN <<>>
    ELSE IF Len(parts) = 1 THEN parts[1]
    ELSE parts[1] \o <<" ">> \o JoinSpace(Tail(parts))

\* position of the first occurrence of character c in s, 0 when absent
RECURSIVE FindChar(_, _, _)
FindChar(s, c, i) ==
    IF i > Len(s) THEN 0 ELSE IF s[i] = c THEN i ELSE FindChar(s, c, i + 1)

\* elements of a sequence, as a set
Range(q) == {q[i] : i \in 1..Len(q)}

(***************************************************************************)
(* Static field configuration, src/build_index.py                          *)
(***************************************************************************)
F ==
    [ player_name |->
          <<"p","l","a","y","e","r","_","n","a","m","e">>,
      position_clean |->
          <<"p","o","s","i","t","i","o","n","_","c","l","e","a","n">>,
      draft |->
          <<"d","r","a","f","t">>,
      birth_city |->
          <<"b","i","r","t","h","_","c","i","t","y">>,
      birth_country |->
          <<"b","i","r","t","h","_","c","o","u","n","t","r","y">>,
      transactions_list |->
          <<"t","r","a","n","s","a","c","t","i","o","n","s","_","l","i","s","t">>,
      college |->
          <<"c","o","l","l","e","g","e">>,
      high_school |->
          <<"h","i","g","h","_","s","c","h","o","o","l">>,
      age |->
          <<"a","g","e">>,
      weight |->
          <<"w","e","i","g","h","t">>,
      profile_url |->
          <<"p","r","o","f","i","l","e"," ","u","r","l">>,
      ontology |->
          <<"o","n","t","o","l","o","g","y">> ]


FIELDS_TO_INDEX ==
    << F.player_name, F.position_clean, F.draft, F.birth_city,
       F.birth_country, F.transactions_list, F.college, F.high_school >>

FIELDS_NUMERIC == << F.age, F.weight >>

FIELDS_KEYWORD == << F.profile_url >>

\* FIELD_BOOSTS in tenths; FIELD_BOOSTS.get(field, 1.0)
FIELD_BOOSTS(field) ==
    CASE field = F.player_name -> 30
      [] field = F.position_clean -> 20
      [] field = F.draft -> 15
      [] field = F.high_school -> 8
      [] OTHER -> 10

(***************************************************************************)
(* Python values held in a table cell or passed to the tokenizer: a str, a *)
(* float (pandas reads an empty cell as NaN, a numeric column as floats)   *)
(* or None (Series.get on an absent column without a default).             *)
(***************************************************************************)
PyStr(s) == [t |-> "str", s |-> s, v |-> 0]
PyNum(v) == [t |-> "num", s |-> <<>>, v |-> v]
PyNaN == [t |-> "nan", s |-> <<>>, v |-> 0]
PyNone == [t |-> "none", s |-> <<>>, v |-> 0]

\* decimal digits of a natural number
DigitChar(d) ==
    CASE d = 0 -> "0" [] d = 1 -> "1" [] d = 2 -> "2" [] d = 3 -> "3"
      [] d = 4 -> "4" [] d = 5 -> "5" [] d = 6 -> "6" [] d = 7 -> "7"
      [] d = 8 -> "8" [] d = 9 -> "9"

DigitVal(c) ==
    CASE c = "0" -> 0 [] c = "1" -> 1 [] c = "2" -> 2 [] c = "3" -> 3
      [] c = "4" -> 4 [] c = "5" -> 5 [] c = "6" -> 6 [] c = "7" -> 7
      [] c = "8" -> 8 [] c = "9" -> 9

RECURSIVE NatDigits(_)
NatDigits(n) ==
    IF n < 10 THEN <<DigitChar(n)>>
    ELSE Append(NatDigits(n \div 10), DigitChar(n % 10))

RECURSIVE DigitsVal(_)
DigitsVal(ds) ==
    IF ds = <<>> THEN 0
    ELSE 10 * DigitsVal(SubSeq(ds, 1, Len(ds) - 1)) + DigitVal(ds[Len(ds)])

\* str(x) of a float held in hundredths: 30.0, 30.5, 30.25, -1.0
FloatRepr(v) ==
    LET a == IF v < 0 THEN -v ELSE v
        frac == a % 100
        fracDigits == IF frac % 10 = 0
                      THEN <<DigitChar(frac \div 10)>>
                      ELSE <<DigitChar(frac \div 10), DigitChar(frac % 10)>>
    IN  (IF v < 0 THEN <<"-">> ELSE <<>>) \o NatDigits(a \div 100) \o <<".">> \o fracDigits

\* str(x)
PyStrOf(x) ==
    CASE x.t = "str" -> x.s
      [] x.t = "nan" -> <<"n","a","n">>
      [] x.t = "none" -> <<"N","o","n","e">>
      [] x.t = "num" -> FloatRepr(x.v)

(***************************************************************************)
(* float(): the result is ok (a value in hundredths, or NaN) or an error   *)
(* (ValueError for a malformed str, TypeError for None).  The str grammar  *)
(* covered is optional surrounding whitespace, an optional sign, and       *)
(* digits with an optional decimal point, or "nan"; exponent, "inf" and    *)
(* digit-group underscores do not occur in the strings the model draws.    *)
(* Fraction digits beyond the second are below the fixed-point resolution. *)
(***************************************************************************)
FloatOk(v) == [ok |-> TRUE, nan |-> FALSE, v |-> v]
FloatNaN == [ok |-> TRUE, nan |-> TRUE, v |-> 0]
FloatErr == [ok |-> FALSE, nan |-> FALSE, v |-> 0]

\* the digits around the decimal point
FloatOfDigits(neg, ip, fp) ==
    IF /\ Len(ip) + Len(fp) >= 1
       /\ \A i \in 1..Len(ip) : ip[i] \in Digits
       /\ \A i \in 1..Len(fp) : fp[i] \in Digits
    THEN With(100 * DigitsVal(ip)
                + DigitsVal(IF Len(fp) >= 2 THEN SubSeq(fp, 1, 2)
                            ELSE IF Len(fp) = 1 THEN Append(fp, "0")
                            ELSE <<"0","0">>),
              LAMBDA mag : FloatOk(IF neg THEN -mag ELSE mag))
    ELSE FloatErr

\* the text after the sign
FloatOfBody(neg, body) ==
    IF StrLower(body) = <<"n","a","n">> THEN FloatNaN
    ELSE With(FindChar(body, ".", 1),
              LAMBDA dot :
                  FloatOfDigits(neg,
                                IF dot = 0 THEN body ELSE SubSeq(body, 1, dot - 1),
                                IF dot = 0 THEN <<>> ELSE SubSeq(body, dot + 1, Len(body))))

FloatOfStr(s) ==
    With(StrStrip(s, WhiteSpace),
         LAMBDA t :
             IF t # <<>> /\ Head(t) \in {"+", "-"}
             THEN FloatOfBody(Head(t) = "-", Tail(t))
             ELSE FloatOfBody(FALSE, t))

PyFloat(x) ==
    CASE x.t = "str" -> FloatOfStr(x.s)
      [] x.t = "nan" -> FloatNaN
      [] x.t = "num" -> FloatOk(x.v)
      [] x.t = "none" -> FloatErr

(***************************************************************************)
(* simple_tokenize, src/build_index.py                                     *)
(***************************************************************************)
\* json.loads of a bracketed text followed by " ".join(parsed): succeeds
\* exactly for a JSON array of strings (an array holding a number, a literal
\* or a nested value parses but makes join raise, which the except clause
\* absorbs like a parse error).  i scans the text between the brackets;
\* mode is "first" (element or end), "elem" (element required) or "after"
\* (comma or end).
RECURSIVE JsonStrings(_, _, _, _)
JsonStrings(s, i, mode, acc) ==
    IF i > Len(s)
    THEN [ok |-> mode # "elem", items |-> acc]
    ELSE IF s[i] \in WhiteSpace
    THEN JsonStrings(s, i + 1, mode, acc)
    ELSE IF mode = "after"
    THEN IF s[i] = "," THEN JsonStrings(s, i + 1, "elem", acc)
         ELSE [ok |-> FALSE, items |-> <<>>]
    ELSE IF s[i] # "\""
    THEN [ok |-> FALSE, items |-> <<>>]
    ELSE LET j == FindChar(s, "\"", i + 1)
             item == SubSeq(s, i + 1, j - 1)
         IN  IF j = 0 \/ \E k \in 1..Len(item) : item[k] \in {"\t", "\n"}
             THEN [ok |-> FALSE, items |-> <<>>]
             ELSE JsonStrings(s, j + 1, "after", Append(acc, item))

\* lines 61-68: the text replaced by its space-joined list elements
UnwrapList(text) ==
    IF Len(text) >= 1 /\ text[1] = "[" /\ text[Len(text)] = "]"
    THEN LET inner == IF Len(text) >= 2
                      THEN SubSeq(StrReplace(text, "'", "\""), 2, Len(text) - 1)
                      ELSE <<"[">>
             parsed == JsonStrings(inner, 1, "first", <<>>)
         IN  IF parsed.ok THEN JoinSpace(parsed.items) ELSE text
    ELSE text

\* line 71: re.sub(r"[^a-z0-9\s]", " ", text)
SubNonAlnum(text) ==
    [i \in 1..Len(text) |->
        IF text[i] \in LowerLetters \cup Digits \cup WhiteSpace THEN text[i] ELSE " "]

\* line 62 raises AttributeError on a value that is neither None, nor a str,
\* nor a float whose str() is "nan"
simple_tokenize_raises(text) == text.t = "num"

simple_tokenize(text) ==
    IF text.t = "none" \/ StrLower(PyStrOf(text)) = <<"n","a","n">>
    THEN <<>>
    ELSE StrSplit(SubNonAlnum(StrLower(UnwrapList(text.s))))

(***************************************************************************)
(* tf_weight and log10                                                     *)
(***************************************************************************)
\* floor(1000 * log10(n)) for n = 1..16
Log10Milli ==
    <<0, 301, 477, 602, 698, 778, 845, 903, 954, 1000, 1041, 1079, 1113, 1146,
      1176, 1204>>

\* the logarithm without the added 1.0
tf_weight_log_only(count) == IF count > 0 THEN Log10Milli[count] ELSE 0

\* 1.0 + math.log10(count) if count > 0 else 0.0, in thousandths
tf_weight(count) == IF count > 0 THEN 1000 + Log10Milli[count] ELSE 0

\* math.sqrt, rounded down
RECURSIVE SqrtBetween(_, _, _)
SqrtBetween(n, lo, hi) ==
    IF lo >= hi THEN lo
    ELSE LET mid == (lo + hi + 1) \div 2
         IN  IF mid * mid <= n THEN SqrtBetween(n, mid, hi)
             ELSE SqrtBetween(n, lo, mid - 1)

Sqrt(n) == SqrtBetween(n, 0, 46340)

\* tf * idf * boost: thousandths * thousandths * tenths, in hundredths
TermWeight(tf, idf_value, boost) == (tf * idf_value * boost) \div 100000

(***************************************************************************)
(* Dictionaries                                                            *)
(***************************************************************************)
\* d[k] = v
Put(d, k, v) == [x \in DOMAIN d \cup {k} |-> IF x = k THEN v ELSE d[x]]

\* d.get(k, default)
Get(d, k, default) == IF k \in DOMAIN d THEN d[k] ELSE default

EmptyDict == <<>>

\* sum of f[x] over x in S
RECURSIVE SumOver(_, _)
SumOver(f, S) ==
    IF S = {} THEN 0
    ELSE LET x == CHOOSE y \in S : TRUE IN f[x] + SumOver(f, S \ {x})

\* the elements of a set of integers in ascending order
RECURSIVE Ascending(_)
Ascending(S) ==
    IF S = {} THEN <<>>
    ELSE LET m == CHOOSE x \in S : \A y \in S : x <= y
         IN  <<m>> \o Ascending(S \ {m})

\* Counter(tokens)[term]
CountOf(tokens, term) == Cardinality({i \in 1..Len(tokens) : tokens[i] = term})

(***************************************************************************)
(* build_index, src/build_index.py                                         *)
(*                                                                         *)
(* df is the sequence of rows of the table; a row maps the column names of *)
(* the table to cell values; row i (1-based here) has doc_id i - 1, the    *)
(* label read_csv gives it.                                                *)
(***************************************************************************)
\* row.get(field, "")
RowGet(row, field) == Get(row, field, PyStr(<<>>))

\* row.get(field)
RowGetNone(row, field) == Get(row, field, PyNone)

\* lines 95-99
EmptyIndex ==
    [text |-> [f \in Range(FIELDS_TO_INDEX) |-> EmptyDict],
     numeric |-> [f \in Range(FIELDS_NUMERIC) |-> EmptyDict],
     keyword |-> [f \in Range(FIELDS_KEYWORD) |-> EmptyDict]]

\* the count of a term added to the number of documents already posted
IndexTextField_accumulated(terms, tokens, doc_id) ==
    [t \in DOMAIN terms \cup Range(tokens) |->
        IF t \in Range(tokens)
        THEN Put(Get(terms, t, EmptyDict), doc_id,
                 CountOf(tokens, t) + Cardinality(DOMAIN Get(terms, t, EmptyDict)))
        ELSE terms[t]]

\* lines 111-117, one field: index["text"][field].setdefault(term, {})[doc_id] = count
IndexTextField(terms, tokens, doc_id) ==
    [t \in DOMAIN terms \cup Range(tokens) |->
        IF t \in Range(tokens)
        THEN Put(Get(terms, t, EmptyDict), doc_id, CountOf(tokens, t))
        ELSE terms[t]]

\* a cell that does not parse recorded as zero
IndexNumericField_zero(values, cell, doc_id) ==
    With(PyFloat(cell),
         LAMBDA value :
             IF value.ok /\ ~value.nan THEN Put(values, doc_id, value.v)
             ELSE Put(values, doc_id, 0))

\* lines 119-125, one field
IndexNumericField(values, cell, doc_id) ==
    With(PyFloat(cell),
         LAMBDA value :
             IF value.ok /\ ~value.nan THEN Put(values, doc_id, value.v) ELSE values)

\* lines 127-130, one field
IndexKeywordField(lists, cell, doc_id) ==
    LET value == StrLower(StrStrip(PyStrOf(cell), WhiteSpace))
    IN  IF value # <<>>
        THEN Put(lists, value, Append(Get(lists, value, <<>>), doc_id))
        ELSE lists

\* the entries of a row filed under the doc_id after its own
IndexRow_shifted(index, row, doc_id) ==
    [text |-> [f \in DOMAIN index.text |->
                  IndexTextField(index.text[f], simple_tokenize(RowGet(row, f)), doc_id + 1)],
     numeric |-> [f \in DOMAIN index.numeric |->
                  IndexNumericField(index.numeric[f], RowGetNone(row, f), doc_id + 1)],
     keyword |-> [f \in DOMAIN index.keyword |->
                  IndexKeywordField(index.keyword[f], RowGet(row, f), doc_id + 1)]]

\* lines 108-130: one iteration of the loop over the rows
IndexRow(index, row, doc_id) ==
    [text |-> [f \in DOMAIN index.text |->
                  IndexTextField(index.text[f], simple_tokenize(RowGet(row, f)), doc_id)],
     numeric |-> [f \in DOMAIN index.numeric |->
                  IndexNumericField(index.numeric[f], RowGetNone(row, f), doc_id)],
     keyword |-> [f \in DOMAIN index.keyword |->
                  IndexKeywordField(index.keyword[f], RowGet(row, f), doc_id)]]

\* the tokenizer raises on some text cell of the row
RowRaises(row) ==
    \E i \in 1..Len(FIELDS_TO_INDEX) :
        simple_tokenize_raises(RowGet(row, FIELDS_TO_INDEX[i]))

RECURSIVE IndexRows(_, _, _)
IndexRows(index, table, i) ==
    IF i > Len(table) THEN index
    ELSE With(IndexRow(index, table[i], i - 1),
              LAMBDA next : IndexRows(next, table, i + 1))

\* build_index(df): (index, number_of_documents, doc_meta), or the
\* tokenizer's exception
build_index(table) ==
    [raised |-> \E i \in 1..Len(table) : RowRaises(table[i]),
     index |-> IndexRows(EmptyIndex, table, 1),
     number_of_documents |-> Len(table),
     doc_meta |-> [d \in 0..(Len(table) - 1) |-> table[d + 1]]]

(***************************************************************************)
(* add_ontology_to_index, src/build_index.py                               *)
(*                                                                         *)
(* An ontology is [classes, properties: sets of str (the dict keys),       *)
(* labels: set of str (the dict values), relationships: predicate ->       *)
(* subject -> set of object str].                                          *)
(***************************************************************************)
OntologyDocId == -1

OntologyTerms(onto) ==
    {StrLower(cls) : cls \in onto.classes}
    \cup {StrLower(prop) : prop \in onto.properties}
    \cup UNION {Range(simple_tokenize(PyStr(label))) : label \in onto.labels}
    \cup UNION {UNION {Range(simple_tokenize(PyStr(subj)))
                       \cup UNION {Range(simple_tokenize(PyStr(o))) :
                                     o \in onto.relationships[p][subj]} :
                       subj \in DOMAIN onto.relationships[p]} :
                p \in DOMAIN onto.relationships}

\* the count of the pseudo-document raised by one on every insertion
OntologyPostings_accumulated(old, terms) ==
    [t \in DOMAIN old \cup terms |->
        IF t \in terms
        THEN Put(Get(old, t, EmptyDict), OntologyDocId,
                 Get(Get(old, t, EmptyDict), OntologyDocId, 0) + 1)
        ELSE old[t]]

\* lines 171-184: index["text"]["ontology"][term][-1] = 1 for every term
OntologyPostings(old, terms) ==
    [t \in DOMAIN old \cup terms |->
        IF t \in terms
        THEN Put(Get(old, t, EmptyDict), OntologyDocId, 1)
        ELSE old[t]]

\* the ontology terms posted to player_name as well
add_ontology_to_index_in_names(index, onto) ==
    [index EXCEPT !.text =
        Put(Put(@, F.ontology,
                OntologyPostings(Get(@, F.ontology, EmptyDict), OntologyTerms(onto))),
            F.player_name,
            OntologyPostings(@[F.player_name], OntologyTerms(onto)))]

add_ontology_to_index(index, onto) ==
    [index EXCEPT !.text =
        Put(@, F.ontology,
            OntologyPostings(Get(@, F.ontology, EmptyDict), OntologyTerms(onto)))]

(***************************************************************************)
(* compute_idf_and_norms, src/build_index.py                               *)
(***************************************************************************)
\* the logarithm of the ratio without the added 1.0
IdfValue_unsmoothed(number_of_documents, df_term) ==
    Log10Milli[number_of_documents + 1] - Log10Milli[df_term + 1]

\* line 148: log10((N + 1) / (df + 1)) + 1.0, in thousandths
IdfValue(number_of_documents, df_term) ==
    Log10Milli[number_of_documents + 1] - Log10Milli[df_term + 1] + 1000

\* lines 144-149
ComputeIdf(index, number_of_documents) ==
    [f \in Range(FIELDS_TO_INDEX) |->
        [t \in DOMAIN index.text[f] |->
            IdfValue(number_of_documents, Cardinality(DOMAIN index.text[f][t]))]]

\* lines 157-160 for one document: the sum of weight * weight over the
\* (field, term) pairs whose postings hold doc_id
SquaredWeights(index, idf_table, doc_id) ==
    LET pairs == {<<f, t>> \in UNION {{f} \X DOMAIN index.text[f] : f \in Range(FIELDS_TO_INDEX)} :
                     doc_id \in DOMAIN index.text[f][t]}
        sq == [p \in pairs |->
                 LET weight == TermWeight(tf_weight(index.text[p[1]][p[2]][doc_id]),
                                          idf_table[p[1]][p[2]],
                                          FIELD_BOOSTS(p[1]))
                 IN  weight * weight]
    IN  SumOver(sq, pairs)

\* the doc_ids that get a key in doc_squared_weights
DocsWithPostings(index) ==
    UNION {UNION {DOMAIN index.text[f][t] : t \in DOMAIN index.text[f]} :
             f \in Range(FIELDS_TO_INDEX)}

\* a norm for every row of the table, zero for a row without postings
compute_idf_and_norms_every_row(index, number_of_documents) ==
    LET idf_table == ComputeIdf(index, number_of_documents)
    IN  [idf |-> idf_table,
         doc_norms |-> [d \in DocsWithPostings(index) \cup 0..(number_of_documents - 2) |->
                           Sqrt(SquaredWeights(index, idf_table, d))]]

compute_idf_and_norms(index, number_of_documents) ==
    LET idf_table == ComputeIdf(index, number_of_documents)
    IN  [idf |-> idf_table,
         doc_norms |-> [d \in DocsWithPostings(index) |->
                           Sqrt(SquaredWeights(index, idf_table, d))]]

(***************************************************************************)
(* load_synonyms, src/search_engine.py                                     *)
(*                                                                         *)
(* The configuration file is absent (NoFile) or holds                      *)
(*   category_synonyms: sequence of [canonical, aliases] in file order,    *)
(*   sections: the entries [key, values] of position_synonyms,             *)
(*     shooting_hand_synonyms, country_synonyms and transaction_terms, in  *)
(*     the order extend_from_section visits them.                          *)
(***************************************************************************)
NoFile == [present |-> FALSE, category_synonyms |-> <<>>, sections |-> <<>>]

W_position == <<"p","o","s","i","t","i","o","n">>
W_position_clean == <<"p","o","s","i","t","i","o","n"," ","c","l","e","a","n">>

\* the three spellings {x, x.replace(" ", "_"), x.replace(" ", "")}
Variants(x) == {x, StrReplace(x, " ", "_"), StrRemove(x, " ")}

\* lines 66-72
DefaultAliases ==
    LET fields == Range(FIELDS_TO_INDEX) \cup Range(FIELDS_NUMERIC) \cup Range(FIELDS_KEYWORD)
        keys == UNION {Variants(f) : f \in fields}
    IN  [k \in keys |-> CHOOSE f \in fields : k \in Variants(f)]

\* lines 81-106, one item of category_synonyms
\* the keys one item maps to its canonical name
CategoryKeys(original_canonical, canonical_norm, aliases) ==
    {StrReplace(original_canonical, " ", "_")}
    \cup Variants(canonical_norm)
    \cup UNION {Variants(StrStrip(StrLower(aliases[i]), WhiteSpace)) :
                  i \in 1..Len(aliases)}

SetAliases(field_aliases, keys, canonical_norm) ==
    [k \in DOMAIN field_aliases \cup keys |->
        IF k \in keys THEN canonical_norm ELSE field_aliases[k]]

\* the canonical name of position written as the field list spells it
AddCategory_underscored(field_aliases, canonical, aliases) ==
    With(StrStrip(StrLower(canonical), WhiteSpace),
         LAMBDA original_canonical :
             With(IF original_canonical = W_position
                  THEN F.position_clean
                  ELSE original_canonical,
                  LAMBDA canonical_norm :
                      SetAliases(field_aliases,
                                 CategoryKeys(original_canonical, canonical_norm, aliases),
                                 canonical_norm)))

\* lines 81-106: one category of the synonym file; lines 86-87 rewrite the
\* canonical name "position" to "position clean"
AddCategory(field_aliases, canonical, aliases) ==
    With(StrStrip(StrLower(canonical), WhiteSpace),
         LAMBDA original_canonical :
             With(IF original_canonical = W_position
                  THEN W_position_clean
                  ELSE original_canonical,
                  LAMBDA canonical_norm :
                      SetAliases(field_aliases,
                                 CategoryKeys(original_canonical, canonical_norm, aliases),
                                 canonical_norm)))

RECURSIVE AddCategories(_, _, _)
AddCategories(field_aliases, items, i) ==
    IF i > Len(items) THEN field_aliases
    ELSE With(AddCategory(field_aliases, items[i].canonical, items[i].aliases),
              LAMBDA next : AddCategories(next, items, i + 1))

\* lines 111-117: add_pair
\* synonyms.setdefault(x, []) followed by the guarded append of y
AppendNew(token_synonyms, x, y) ==
    With(Get(token_synonyms, x, <<>>),
         LAMBDA l : Put(token_synonyms, x, IF y \in Range(l) THEN l ELSE Append(l, y)))

add_pair(token_synonyms, a, b) ==
    With(StrStrip(StrLower(a), WhiteSpace),
         LAMBDA a_norm :
             With(StrStrip(StrLower(b), WhiteSpace),
                  LAMBDA b_norm :
                      AppendNew(AppendNew(token_synonyms, a_norm, b_norm), b_norm, a_norm)))

\* lines 119-123: extend_from_section, over the entries of all sections
RECURSIVE AddPairs(_, _, _, _)
AddPairs(token_synonyms, sections, i, j) ==
    IF i > Len(sections) THEN token_synonyms
    ELSE IF j > Len(sections[i].values)
         THEN AddPairs(token_synonyms, sections, i + 1, 1)
         ELSE With(add_pair(token_synonyms, sections[i].key, sections[i].values[j]),
                   LAMBDA next : AddPairs(next, sections, i, j + 1))

\* (field_aliases, token_synonyms)
load_synonyms(file) ==
    IF ~file.present
    THEN [field_aliases |-> DefaultAliases, term_synonyms |-> EmptyDict]
    ELSE [field_aliases |-> AddCategories(EmptyDict, file.category_synonyms, 1),
          term_synonyms |-> AddPairs(EmptyDict, file.sections, 1, 1)]

(***************************************************************************)
(* SearchEngine helper methods, src/search_engine.py.  self is the engine: *)
(* [index, idf, doc_norms, doc_meta, field_aliases, term_synonyms,         *)
(*  numeric_max].                                                          *)
(***************************************************************************)
normalise_field(self, field) ==
    With(StrReplace(StrStrip(StrLower(field), WhiteSpace), " ", "_"),
         LAMBDA field_norm :
             IF field_norm \in DOMAIN self.field_aliases
             THEN self.field_aliases[field_norm]
             ELSE StrReplace(field_norm, "_", " "))

\* lines 287-293
RECURSIVE ExpandSynonyms(_, _)
ExpandSynonyms(synonyms, i) ==
    IF i > Len(synonyms) THEN <<>>
    ELSE simple_tokenize(PyStr(synonyms[i])) \o ExpandSynonyms(synonyms, i + 1)

RECURSIVE ExpandTokens(_, _, _)
ExpandTokens(self, tokens, i) ==
    IF i > Len(tokens) THEN <<>>
    ELSE <<tokens[i]>>
         \o ExpandSynonyms(Get(self.term_synonyms, tokens[i], <<>>), 1)
         \o ExpandTokens(self, tokens, i + 1)

_expand_terms(self, raw) == ExpandTokens(self, simple_tokenize(PyStr(raw)), 1)

\* lines 298-305: the options of one token (a set; the code sorts it into
\* a list that is only ever searched)
\* line 301-304: the tokens of one synonym, or the synonym itself when it
\* tokenizes to nothing
SynonymOptions(synonym, tokens) ==
    IF tokens # <<>> THEN Range(tokens) ELSE {synonym}

Alternatives(self, token) ==
    With(Get(self.term_synonyms, token, <<>>),
         LAMBDA synonyms :
             {token} \cup UNION {SynonymOptions(synonyms[i],
                                                 simple_tokenize(PyStr(synonyms[i]))) :
                                   i \in 1..Len(synonyms)})

\* the alternatives of all tokens of the value in one group
_filter_alternatives_merged(self, raw) ==
    With(simple_tokenize(PyStr(raw)),
         LAMBDA tokens :
             IF tokens = <<>> THEN <<>>
             ELSE <<UNION {Alternatives(self, tokens[i]) : i \in 1..Len(tokens)}>>)

\* lines 295-306: one group of alternatives per token of the value
_filter_alternatives(self, raw) ==
    With(simple_tokenize(PyStr(raw)),
         LAMBDA tokens : [i \in 1..Len(tokens) |-> Alternatives(self, tokens[i])])

\* lines 308-320: (comparator, numeric_value), or ValueError
\* lines 311-315: the comparator v starts with, "=" by default
ComparatorOf(v) ==
    IF StartsWith(v, <<">", "=">>) THEN <<">", "=">>
    ELSE IF StartsWith(v, <<"<", "=">>) THEN <<"<", "=">>
    ELSE IF StartsWith(v, <<">">>) THEN <<">">>
    ELSE IF StartsWith(v, <<"<">>) THEN <<"<">>
    ELSE <<"=">>

\* lines 316-320 once the comparator is known
NumericAfter(v, comparator) ==
    With(FloatOfStr(IF StartsWith(v, comparator)
                    THEN SubSeq(v, Len(comparator) + 1, Len(v))
                    ELSE v),
         LAMBDA numeric_value :
             [raised |-> ~numeric_value.ok,
              comparator |-> comparator,
              numeric_value |-> numeric_value])

_parse_numeric_filter(value) ==
    With(StrStrip(value, WhiteSpace), LAMBDA v : NumericAfter(v, ComparatorOf(v)))

(***************************************************************************)
(* shlex.split(query): whitespace-separated tokens, a quoted stretch       *)
(* (single or double quotes) is taken literally and joins the token around *)
(* it; ValueError when a quote is left open.  The queries the model draws  *)
(* hold no backslash.                                                      *)
(***************************************************************************)
RECURSIVE ShlexFrom(_, _, _, _, _, _)
ShlexFrom(s, i, cur, has, quote, acc) ==
    IF i > Len(s)
    THEN [raised |-> quote # "",
          tokens |-> IF has THEN Append(acc, cur) ELSE acc]
    ELSE IF quote # ""
    THEN IF s[i] = quote
         THEN ShlexFrom(s, i + 1, cur, TRUE, "", acc)
         ELSE ShlexFrom(s, i + 1, Append(cur, s[i]), TRUE, quote, acc)
    ELSE IF s[i] \in WhiteSpace
    THEN ShlexFrom(s, i + 1, <<>>, FALSE, "", IF has THEN Append(acc, cur) ELSE acc)
    ELSE IF s[i] \in {"\"", "'"}
    THEN ShlexFrom(s, i + 1, cur, TRUE, s[i], acc)
    ELSE ShlexFrom(s, i + 1, Append(cur, s[i]), TRUE, "", acc)

shlex_split(query) == ShlexFrom(query, 1, <<>>, FALSE, "", <<>>)

(***************************************************************************)
(* parse_query, src/search_engine.py                                       *)
(*                                                                         *)
(* QueryComponents:                                                        *)
(*   text_terms: sequence of [field, counts] in insertion order, counts    *)
(*     (a Counter) a sequence of [term, count] in insertion order;         *)
(*   required_terms: field -> sequence of groups (sets of terms);          *)
(*   numeric_filters: sequence of [field, comparator, value];              *)
(*   keyword_filters: field -> sequence of values.                         *)
(***************************************************************************)
\* position of the entry with the given key in an insertion-ordered dict
RECURSIVE IndexOfKey(_, _, _)
IndexOfKey(entries, key, i) ==
    IF i > Len(entries) THEN 0
    ELSE IF entries[i].key = key THEN i
    ELSE IndexOfKey(entries, key, i + 1)

\* counter[term] += 1
CounterAdd(counts, term) ==
    LET k == IndexOfKey(counts, term, 1)
    IN  IF k = 0 THEN Append(counts, [key |-> term, count |-> 1])
        ELSE [counts EXCEPT ![k].count = @ + 1]

RECURSIVE CounterUpdate(_, _, _)
CounterUpdate(counts, terms, i) ==
    IF i > Len(terms) THEN counts
    ELSE With(CounterAdd(counts, terms[i]),
              LAMBDA next : CounterUpdate(next, terms, i + 1))

\* text_terms[field] of the defaultdict(Counter): the entry is created on
\* first access
TouchField(text_terms, field) ==
    IF IndexOfKey(text_terms, field, 1) = 0
    THEN Append(text_terms, [key |-> field, counts |-> <<>>])
    ELSE text_terms

\* text_terms[field].update(terms)
TextTermsUpdate(text_terms, field, terms) ==
    With(TouchField(text_terms, field),
         LAMBDA touched :
             [touched EXCEPT ![IndexOfKey(touched, field, 1)].counts =
                                 CounterUpdate(@, terms, 1)])

\* a free-text term counted in the name field only
SpreadTerm_names_only(text_terms, term, i) ==
    TextTermsUpdate(text_terms, F.player_name, <<term>>)

\* lines 199-201: every expanded term into every text field
RECURSIVE SpreadTerm(_, _, _)
SpreadTerm(text_terms, term, i) ==
    IF i > Len(FIELDS_TO_INDEX) THEN text_terms
    ELSE With(TextTermsUpdate(text_terms, FIELDS_TO_INDEX[i], <<term>>),
              LAMBDA next : SpreadTerm(next, term, i + 1))

RECURSIVE SpreadTerms(_, _, _)
SpreadTerms(text_terms, expanded, i) ==
    IF i > Len(expanded) THEN text_terms
    ELSE With(SpreadTerm(text_terms, expanded[i], 1),
              LAMBDA next : SpreadTerms(next, expanded, i + 1))

EmptyComponents ==
    [raised |-> FALSE,
     text_terms |-> <<>>,
     required_terms |-> EmptyDict,
     numeric_filters |-> <<>>,
     keyword_filters |-> EmptyDict,
     general_terms |-> <<>>]

\* a numeric filter whose value does not parse is left out
AddNumericFilter_dropped(c, canonical_field, parsed) ==
    IF parsed.raised
    THEN c
    ELSE [c EXCEPT !.numeric_filters =
              Append(@, [field |-> canonical_field,
                         comparator |-> parsed.comparator,
                         value |-> parsed.numeric_value])]

\* lines 177-180: a numeric filter; a value that does not parse raises
AddNumericFilter(c, canonical_field, parsed) ==
    IF parsed.raised
    THEN [c EXCEPT !.raised = TRUE]
    ELSE [c EXCEPT !.numeric_filters =
              Append(@, [field |-> canonical_field,
                         comparator |-> parsed.comparator,
                         value |-> parsed.numeric_value])]

\* a token of an unknown field keeps only its value as free text
ParseFieldToken_value_only(self, c, token, canonical_field, value_part) ==
    IF canonical_field \in Range(FIELDS_NUMERIC)
    THEN AddNumericFilter(c, canonical_field, _parse_numeric_filter(value_part))
    ELSE IF canonical_field \in Range(FIELDS_KEYWORD)
    THEN [c EXCEPT !.keyword_filters =
              Put(@, canonical_field,
                  Append(Get(@, canonical_field, <<>>),
                         StrLower(StrStrip(value_part, {"\"", " "}))))]
    ELSE IF canonical_field \in Range(FIELDS_TO_INDEX)
    THEN [c EXCEPT !.text_terms =
              TextTermsUpdate(@, canonical_field, _expand_terms(self, value_part)),
                   !.required_terms =
              Put(@, canonical_field,
                  Get(@, canonical_field, <<>>) \o _filter_alternatives(self, value_part))]
    ELSE [c EXCEPT !.general_terms = Append(@, value_part)]

\* lines 177-195: a token field:value whose field resolved to canonical_field
ParseFieldToken(self, c, token, canonical_field, value_part) ==
    IF canonical_field \in Range(FIELDS_NUMERIC)
    THEN AddNumericFilter(c, canonical_field, _parse_numeric_filter(value_part))
    ELSE IF canonical_field \in Range(FIELDS_KEYWORD)
    THEN [c EXCEPT !.keyword_filters =
              Put(@, canonical_field,
                  Append(Get(@, canonical_field, <<>>),
                         StrLower(StrStrip(value_part, {"\"", " "}))))]
    ELSE IF canonical_field \in Range(FIELDS_TO_INDEX)
    THEN [c EXCEPT !.text_terms =
              TextTermsUpdate(@, canonical_field, _expand_terms(self, value_part)),
                   !.required_terms =
              Put(@, canonical_field,
                  Get(@, canonical_field, <<>>) \o _filter_alternatives(self, value_part))]
    ELSE [c EXCEPT !.general_terms = Append(@, token)]

\* lines 173-195: the loop body for one token; split(":", 1) cuts at the
\* first colon
ParseToken(self, c, token) ==
    With(FindChar(token, ":", 1),
         LAMBDA colon :
             IF colon = 0
             THEN [c EXCEPT !.general_terms = Append(@, token)]
             ELSE ParseFieldToken(self, c, token,
                                  normalise_field(self, SubSeq(token, 1, colon - 1)),
                                  SubSeq(token, colon + 1, Len(token))))

RECURSIVE ParseTokens(_, _, _, _)
ParseTokens(self, c, tokens, i) ==
    IF i > Len(tokens) \/ c.raised THEN c
    ELSE With(ParseToken(self, c, tokens[i]),
              LAMBDA next : ParseTokens(self, next, tokens, i + 1))

\* parse_query(query): the QueryComponents, or raised (ValueError)
parse_query(self, query) ==
    With(shlex_split(query),
         LAMBDA split :
             IF split.raised
             THEN [EmptyComponents EXCEPT !.raised = TRUE]
             ELSE With(ParseTokens(self, EmptyComponents, split.tokens, 1),
                       LAMBDA c :
                           IF c.raised
                           THEN [EmptyComponents EXCEPT !.raised = TRUE]
                           ELSE IF c.general_terms # <<>>
                           THEN [c EXCEPT !.text_terms =
                                    SpreadTerms(@, _expand_terms(self, JoinSpace(c.general_terms)), 1)]
                           ELSE c))

(***************************************************************************)
(* _passes_filters and _apply_boost, src/search_engine.py                  *)
(***************************************************************************)
Abs(x) == IF x < 0 THEN 0 - x ELSE x

Max2(a, b) == IF a >= b THEN a ELSE b

\* math.isclose(a, b, rel_tol=1e-4): abs(a - b) <= 1e-4 * max(abs(a), abs(b))
IsClose(a, b) == Abs(a - b) * 10000 <= Max2(Abs(a), Abs(b))

\* the comparison with '>' read as '>='
Compare_inclusive(doc_value, comparator, value) ==
    IF value.nan THEN FALSE
    ELSE CASE comparator \in {<<">", "=">>, <<">">>} -> doc_value >= value.v
           [] comparator = <<"<", "=">> -> doc_value <= value.v
           [] comparator = <<"<">> -> doc_value < value.v
           [] comparator = <<"=">> -> IsClose(doc_value, value.v)

\* lines 328-337: one comparison; every comparison with NaN is false
Compare(doc_value, comparator, value) ==
    IF value.nan THEN FALSE
    ELSE CASE comparator = <<">", "=">> -> doc_value >= value.v
           [] comparator = <<"<", "=">> -> doc_value <= value.v
           [] comparator = <<">">> -> doc_value > value.v
           [] comparator = <<"<">> -> doc_value < value.v
           [] comparator = <<"=">> -> IsClose(doc_value, value.v)

\* a document passes when one of the numeric filters admits it
PassesNumeric_any(self, doc_id, components) ==
    \/ components.numeric_filters = <<>>
    \/ \E i \in 1..Len(components.numeric_filters) :
           LET nf == components.numeric_filters[i]
               values == Get(self.index.numeric, nf.field, EmptyDict)
           IN  /\ doc_id \in DOMAIN values
               /\ Compare(values[doc_id], nf.comparator, nf.value)

\* lines 324-337
PassesNumeric(self, doc_id, components) ==
    \A i \in 1..Len(components.numeric_filters) :
        LET nf == components.numeric_filters[i]
            values == Get(self.index.numeric, nf.field, EmptyDict)
        IN  /\ doc_id \in DOMAIN values
            /\ Compare(values[doc_id], nf.comparator, nf.value)

\* the keyword comparison as a prefix match
PassesKeyword_partial(self, doc_id, components) ==
    \A field \in DOMAIN components.keyword_filters :
        \E i \in 1..Len(components.keyword_filters[field]) :
            StartsWith(StrLower(StrStrip(PyStrOf(Get(self.doc_meta[doc_id], field,
                                                     PyStr(<<>>))),
                                         WhiteSpace)),
                       components.keyword_filters[field][i])

\* lines 340-343; self.doc_meta[doc_id] raises KeyError for an unknown doc_id
PassesKeyword(self, doc_id, components) ==
    \A field \in DOMAIN components.keyword_filters :
        LET actual_value ==
                StrLower(StrStrip(PyStrOf(Get(self.doc_meta[doc_id], field, PyStr(<<>>))),
                                  WhiteSpace))
        IN  actual_value \in Range(components.keyword_filters[field])

\* lines 346-350
PassesRequired(self, doc_id, components) ==
    \A field \in DOMAIN components.required_terms :
        LET postings_for_field == Get(self.index.text, field, EmptyDict)
        IN  \A i \in 1..Len(components.required_terms[field]) :
                \E term \in components.required_terms[field][i] :
                    doc_id \in DOMAIN Get(postings_for_field, term, EmptyDict)

\* the keyword loop is reached (no numeric filter returned False first) and
\* looks up a doc_id that has no DocMeta row
_passes_filters_raises(self, doc_id, components) ==
    /\ PassesNumeric(self, doc_id, components)
    /\ DOMAIN components.keyword_filters # {}
    /\ doc_id \notin DOMAIN self.doc_meta

\* the three kinds of filter as alternatives: a document passes when it
\* passes any one kind
_passes_filters_any(self, doc_id, components) ==
    \/ PassesNumeric(self, doc_id, components)
    \/ PassesKeyword(self, doc_id, components)
    \/ PassesRequired(self, doc_id, components)

\* lines 322-352: numeric, keyword and required-term filters, all of them
_passes_filters(self, doc_id, components) ==
    /\ PassesNumeric(self, doc_id, components)
    /\ PassesKeyword(self, doc_id, components)
    /\ PassesRequired(self, doc_id, components)

\* lines 354-371: score in thousandths, strength and field values in
\* hundredths
\* lines 361-371 for a field that has numeric values
BoostBy(score, strength, max_value, doc_value) ==
    IF max_value <= 0 THEN score
    ELSE (score * (1000 + (strength * 10 * doc_value) \div max_value)) \div 1000

\* a boost field that is no numeric field of the index boosts every
\* document by the full strength
_apply_boost_unknown_field_full(self, doc_id, field, score, strength) ==
    With(normalise_field(self, field),
         LAMBDA canonical_field :
             IF canonical_field \notin DOMAIN self.index.numeric
             THEN (score * (1000 + strength * 10)) \div 1000
             ELSE BoostBy(score, strength,
                          Get(self.numeric_max, canonical_field, 0),
                          Get(self.index.numeric[canonical_field], doc_id, 0)))

\* a document without a value of the boost field boosted like the document
\* of the largest value
_apply_boost_missing_as_max(self, doc_id, field, score, strength) ==
    With(normalise_field(self, field),
         LAMBDA canonical_field :
             IF canonical_field \notin DOMAIN self.index.numeric THEN score
             ELSE BoostBy(score, strength,
                          Get(self.numeric_max, canonical_field, 0),
                          Get(self.index.numeric[canonical_field], doc_id,
                              Get(self.numeric_max, canonical_field, 0))))

_apply_boost(self, doc_id, field, score, strength) ==
    With(normalise_field(self, field),
         LAMBDA canonical_field :
             IF canonical_field \notin DOMAIN self.index.numeric THEN score
             ELSE BoostBy(score, strength,
                          Get(self.numeric_max, canonical_field, 0),
                          Get(self.index.numeric[canonical_field], doc_id, 0)))

(***************************************************************************)
(* SearchEngine.search, src/search_engine.py                               *)
(***************************************************************************)
\* position of doc_id in the score accumulator (insertion order)
RECURSIVE IndexOfDoc(_, _, _)
IndexOfDoc(scores, doc_id, i) ==
    IF i > Len(scores) THEN 0
    ELSE IF scores[i].doc_id = doc_id THEN i
    ELSE IndexOfDoc(scores, doc_id, i + 1)

\* scores[doc_id] += x on the defaultdict(float)
AddScore(scores, doc_id, x) ==
    LET k == IndexOfDoc(scores, doc_id, 1)
    IN  IF k = 0 THEN Append(scores, [doc_id |-> doc_id, score |-> x])
        ELSE [scores EXCEPT ![k].score = @ + x]

\* lines 237-240: the postings of one term, by ascending doc_id
RECURSIVE ScorePostings(_, _, _, _, _, _, _)
ScorePostings(scores, postings, docs, i, query_weight, idf_value, boost) ==
    IF i > Len(docs) THEN scores
    ELSE With(AddScore(scores, docs[i],
                       query_weight
                         * TermWeight(tf_weight(postings[docs[i]]), idf_value, boost)),
              LAMBDA next : ScorePostings(next, postings, docs, i + 1,
                                          query_weight, idf_value, boost))

\* lines 228-240: one (field, term, count) of the query; acc is
\* [scores, query_norm_sq]
\* lines 235-240 for a term that has postings and an IDF
ScoreWeighted(acc, postings, query_weight, idf_value, boost) ==
    [scores |-> ScorePostings(acc.scores, postings, Ascending(DOMAIN postings), 1,
                              query_weight, idf_value, boost),
     query_norm_sq |-> acc.query_norm_sq + query_weight * query_weight]

\* lines 229-232: the guard on the postings and the IDF
ScoreKnown(acc, postings, count, idf_value, boost) ==
    IF DOMAIN postings = {} \/ idf_value = 0 THEN acc
    ELSE ScoreWeighted(acc, postings, TermWeight(tf_weight(count), idf_value, boost),
                       idf_value, boost)

\* the postings of every term of the field in place of the term's own
ScoreTerm_field(self, acc, field, term, count) ==
    ScoreKnown(acc,
               [d \in UNION {DOMAIN self.index.text[field][t] :
                               t \in DOMAIN self.index.text[field]} |-> 1],
               count,
               Get(self.idf[field], term, 0),
               FIELD_BOOSTS(field))

\* lines 226-227: the postings and the IDF of the term in its field
ScoreTerm(self, acc, field, term, count) ==
    ScoreKnown(acc,
               Get(self.index.text[field], term, EmptyDict),
               count,
               Get(self.idf[field], term, 0),
               FIELD_BOOSTS(field))

RECURSIVE ScoreCounts(_, _, _, _, _)
ScoreCounts(self, acc, field, counts, i) ==
    IF i > Len(counts) THEN acc
    ELSE With(ScoreTerm(self, acc, field, counts[i].key, counts[i].count),
              LAMBDA next : ScoreCounts(self, next, field, counts, i + 1))

\* lines 225-240
RECURSIVE ScoreFields(_, _, _, _)
ScoreFields(self, acc, text_terms, i) ==
    IF i > Len(text_terms) THEN acc
    ELSE With(ScoreCounts(self, acc, text_terms[i].key, text_terms[i].counts, 1),
              LAMBDA next : ScoreFields(self, next, text_terms, i + 1))

Accumulate(self, components) ==
    ScoreFields(self, [scores |-> <<>>, query_norm_sq |-> 0], components.text_terms, 1)

\* line 258: score / (doc_norm * query_norm), in thousandths
Cosine(score, doc_norm, query_norm) ==
    (score * 100) \div ((doc_norm * query_norm) \div 10)

\* lines 251-263: the loop body for one candidate, results the list so far
CollectOne(self, components, results, entry, query_norm, boost_field, boost_strength) ==
    With(Get(self.doc_norms, entry.doc_id, 0),
         LAMBDA doc_norm :
             IF ~_passes_filters(self, entry.doc_id, components) \/ doc_norm = 0
             THEN results
             ELSE With(Cosine(entry.score, doc_norm, query_norm),
                       LAMBDA final_score :
                           Append(results,
                                  [doc_id |-> entry.doc_id,
                                   tf_idf_score |-> entry.score,
                                   cosine_score |->
                                       IF boost_field # <<>>
                                       THEN _apply_boost(self, entry.doc_id, boost_field,
                                                         final_score, boost_strength)
                                       ELSE final_score])))

\* lines 250-263: the loop over the accumulator
RECURSIVE CollectResults(_, _, _, _, _, _, _, _)
CollectResults(self, components, results, scores, i, query_norm, boost_field, boost_strength) ==
    IF i > Len(scores) THEN results
    ELSE With(CollectOne(self, components, results, scores[i], query_norm,
                         boost_field, boost_strength),
              LAMBDA next : CollectResults(self, components, next, scores, i + 1,
                                           query_norm, boost_field, boost_strength))

\* an entry placed before the entries of its own score
RECURSIVE InsertSorted_before_equals(_, _)
InsertSorted_before_equals(sorted, r) ==
    IF sorted = <<>> THEN <<r>>
    ELSE IF Head(sorted).cosine_score > r.cosine_score
    THEN <<Head(sorted)>> \o InsertSorted_before_equals(Tail(sorted), r)
    ELSE <<r>> \o sorted

\* the list left in the order of the accumulator
InsertSorted_appended(sorted, r) == Append(sorted, r)

\* line 265: results.sort(key=cosine_score, reverse=True); the sort is
\* stable, entries of equal score keep their order
RECURSIVE InsertSorted(_, _)
InsertSorted(sorted, r) ==
    IF sorted = <<>> THEN <<r>>
    ELSE IF Head(sorted).cosine_score >= r.cosine_score
    THEN <<Head(sorted)>> \o InsertSorted(Tail(sorted), r)
    ELSE <<r>> \o sorted

RECURSIVE SortResults(_, _, _)
SortResults(results, i, sorted) ==
    IF i > Len(results) THEN sorted
    ELSE With(InsertSorted(sorted, results[i]),
              LAMBDA next : SortResults(results, i + 1, next))

\* results[:top_k]
Slice(results, top_k) ==
    LET n == IF top_k >= 0 THEN top_k ELSE Len(results) + top_k
    IN  SubSeq(results, 1, IF n > Len(results) THEN Len(results) ELSE n)

\* the loop at line 250 reaches a candidate whose filter check raises
FilterRaises(self, components, scores) ==
    \E i \in 1..Len(scores) : _passes_filters_raises(self, scores[i].doc_id, components)

\* the outcome of a search call: the returned list, or raised with the
\* exception; components, scores and query_norm are the locals of the call
Outcome(raised, components, scores, query_norm, results) ==
    [raised |-> raised, components |-> components, scores |-> scores,
     query_norm |-> query_norm, results |-> results]

\* lines 246-266
SearchRanked(self, components, scores, query_norm, top_k, boost_field, boost_strength) ==
    IF query_norm = 0
    THEN Outcome("", components, scores, 0, <<>>)
    ELSE IF FilterRaises(self, components, scores)
    THEN Outcome("KeyError", components, scores, query_norm, <<>>)
    ELSE Outcome("", components, scores, query_norm,
                 Slice(SortResults(CollectResults(self, components, <<>>, scores, 1,
                                                  query_norm, boost_field, boost_strength),
                                   1, <<>>),
                       top_k))

\* an empty accumulator answered with the documents that pass the filters
SearchScored_unscored(self, components, acc, top_k, boost_field, boost_strength) ==
    IF acc.scores = <<>>
    THEN With(Ascending({d \in DOMAIN self.doc_meta : _passes_filters(self, d, components)}),
              LAMBDA passing :
                  Outcome("", components, <<>>, 0,
                          Slice([i \in 1..Len(passing) |->
                                    [doc_id |-> passing[i], tf_idf_score |-> 0,
                                     cosine_score |-> 0]],
                                top_k)))
    ELSE SearchRanked(self, components, acc.scores,
                      IF acc.query_norm_sq # 0 THEN Sqrt(acc.query_norm_sq) ELSE 0,
                      top_k, boost_field, boost_strength)

\* lines 242-246
SearchScored(self, components, acc, top_k, boost_field, boost_strength) ==
    IF acc.scores = <<>>
    THEN Outcome("", components, <<>>, 0, <<>>)
    ELSE SearchRanked(self, components, acc.scores,
                      IF acc.query_norm_sq # 0 THEN Sqrt(acc.query_norm_sq) ELSE 0,
                      top_k, boost_field, boost_strength)

\* lines 220-240
SearchParsed(self, components, top_k, boost_field, boost_strength) ==
    IF components.raised
    THEN Outcome("ValueError", components, <<>>, 0, <<>>)
    ELSE SearchScored(self, components, Accumulate(self, components),
                      top_k, boost_field, boost_strength)

search(self, query, top_k, boost_field, boost_strength) ==
    SearchParsed(self, parse_query(self, query), top_k, boost_field, boost_strength)

(***************************************************************************)
(* SearchEngine.__init__, src/search_engine.py                             *)
(***************************************************************************)
\* max(values.values()) if values else 0.0
MaxValue(values) ==
    IF DOMAIN values = {} THEN 0
    ELSE CHOOSE m \in {values[d] : d \in DOMAIN values} :
             \A d \in DOMAIN values : values[d] <= m

SearchEngine(artifacts, synonyms_file) ==
    LET syn == load_synonyms(synonyms_file)
    IN  [index |-> artifacts.index,
         idf |-> artifacts.idf,
         doc_norms |-> artifacts.doc_norms,
         doc_meta |-> artifacts.doc_meta,
         field_aliases |-> syn.field_aliases,
         term_synonyms |-> syn.term_synonyms,
         numeric_max |-> [f \in DOMAIN artifacts.index.numeric |->
                            MaxValue(artifacts.index.numeric[f])]]

(***************************************************************************)
(* Inputs: the table read from the CSV, the ontology pickle, the synonym   *)
(* configuration file, and the queries typed at the prompt                 *)
(***************************************************************************)
C_shoots == <<"s","h","o","o","t","s">>

\* one row of the table; the columns birth_city, birth_country,
\* transactions_list, college and high_school are absent from it, the column
\* shoots is not in the field configuration
Row(name, position, draft, age, weight, url) ==
    [c \in {F.player_name, F.position_clean, F.draft, F.age, F.weight,
            F.profile_url, C_shoots} |->
        CASE c = F.player_name -> PyStr(name)
          [] c = F.position_clean -> PyStr(position)
          [] c = F.draft -> PyStr(draft)
          [] c = F.age -> age
          [] c = F.weight -> weight
          [] c = F.profile_url -> url
          [] c = C_shoots -> PyStr(<<"R">>)]

\* the rows the tables are made of.  F has empty cells: no name and no
\* weight (read as NaN), a draft cell holding a list literal, age zero and a
\* blank profile url.  G has no text in any configured text field.
Rows ==
    [ A |->
          Row(<<"L","e","B","r","o","n"," ","J","a","m","e","s">>,
              <<"S","F">>,
              <<"C","a","v","a","l","i","e","r","s">>,
              PyStr(<<"3","9">>), PyNum(11300), PyStr(<<"u","1">>)),
      B |->
          Row(<<"M","i","c","h","a","e","l"," ","J","o","r","d","a","n">>,
              <<"S","G">>,
              <<"B","u","l","l","s">>,
              PyStr(<<"3","0">>), PyNum(9800), PyStr(<<" ","U","1"," ">>)),
      C |->
          Row(<<"L","e","B","r","o","n"," ","R","a","y","m","o","n","e"," ","J","a","m","e","s">>,
              <<"P","F">>,
              <<"W","a","r","r","i","o","r","s">>,
              PyStr(<<"-">>), PyNum(9000), PyStr(<<"u","1","2">>)),
      D |->
          Row(<<"S","t","e","p","h","e","n"," ","C","u","r","r","y">>,
              <<"P","G">>,
              <<"W","a","r","r","i","o","r","s">>,
              PyStr(<<"3","6">>), PyNaN, PyNaN),
      E |->
          Row(<<"K","l","a","y"," ","J","a","m","e","s">>,
              <<"S","G"," ","/"," ","P","G">>,
              <<"W","a","r","r","i","o","r","s"," ","W","a","r","r","i","o","r","s">>,
              PyStr(<<"2","5",".","5">>), PyNum(9900), PyStr(<<"u","2">>)),
      F |->
          [Row(<<>>,
               <<"C">>,
               <<"[","'","B","u","l","l","s","'",","," ","'","B","u","l","l","s","'","]">>,
               PyStr(<<"0">>), PyNaN, PyStr(<<" "," ">>))
              EXCEPT ![F.player_name] = PyNaN],
      G |->
          [Row(<<>>, <<>>, <<>>, PyStr(<<"2","0">>), PyNum(7000), PyStr(<<"u","9">>))
              EXCEPT ![F.player_name] = PyNaN, ![F.position_clean] = PyNaN, ![F.draft] = PyNaN] ]

RowPool == <<Rows.A, Rows.B, Rows.C, Rows.D, Rows.E, Rows.F>>

\* at most this many rows in the table
MaxDocs == 3

\* the tables: the rows of the pool, in pool order, any MaxDocs of them
RECURSIVE PickRows(_, _)
PickRows(picked, i) ==
    IF i > Len(RowPool) THEN <<>>
    ELSE (IF i \in picked THEN <<RowPool[i]>> ELSE <<>>) \o PickRows(picked, i + 1)

Tables ==
    {PickRows(picked, 1) :
        picked \in {P \in SUBSET (1..Len(RowPool)) : Cardinality(P) <= MaxDocs}}

OntologyA ==
    [classes |-> {<<"P","l","a","y","e","r">>},
     properties |-> {<<"p","l","a","y","s","F","o","r">>},
     labels |-> {<<"L","e","B","r","o","n"," ","J","a","m","e","s">>},
     relationships |->
        (<<"t","e","a","m">> :> (<<"c","u","r","r","y">> :> {<<"w","a","r","r","i","o","r","s">>, <<"G","o","l","d","e","n"," ","S","t","a","t","e"," ","W","a","r","r","i","o","r","s">>}))]

Ontologies == {OntologyA}

\* an ontology of two predicates whose entries share strings
OntologyB ==
    [classes |-> {<<"T","e","a","m">>},
     properties |-> {<<"r","i","v","a","l">>},
     labels |-> {<<"W","a","r","r","i","o","r","s">>},
     relationships |->
        (<<"t","e","a","m">> :>
            (<<"C","u","r","r","y">> :> {<<"W","a","r","r","i","o","r","s">>}
             @@ <<"J","a","m","e","s">> :> {<<"L","a","k","e","r","s">>}))
        @@ (<<"r","i","v","a","l">> :>
            (<<"W","a","r","r","i","o","r","s">> :>
                {<<"L","a","k","e","r","s">>, <<"C","u","r","r","y">>}))]

\* a configuration file in the shape the loader's comments describe
SynonymsA ==
    [present |-> TRUE,
     category_synonyms |->
        <<[canonical |-> <<"P","o","s","i","t","i","o","n">>, aliases |-> <<<<"p","o","s">>>>],
          [canonical |-> <<"a","g","e">>, aliases |-> <<<<"y","e","a","r","s">>>>],
          [canonical |-> <<"d","r","a","f","t">>, aliases |-> <<<<"t","e","a","m">>>>]>>,
     sections |->
        <<[key |-> <<"p","g">>, values |-> <<<<"P","o","i","n","t"," ","G","u","a","r","d">>>>],
          [key |-> <<"w","a","r","r","i","o","r","s">>, values |-> <<<<"g","s","w">>>>]>>]

\* a configuration file that names the dataset's own columns
SynonymsB ==
    [present |-> TRUE,
     category_synonyms |->
        <<[canonical |-> <<"p","o","s","i","t","i","o","n","_","c","l","e","a","n">>, aliases |-> <<<<"p","o","s","i","t","i","o","n">>>>],
          [canonical |-> <<"w","e","i","g","h","t">>, aliases |-> <<<<"k","g">>>>],
          [canonical |-> <<"p","l","a","y","e","r","_","n","a","m","e">>, aliases |-> <<<<"n","a","m","e">>>>]>>,
     sections |->
        <<[key |-> <<"s","g">>, values |-> <<<<"g","u","a","r","d">>, <<"p","g">>>>]>>]

SynonymFiles == {NoFile, SynonymsA, SynonymsB}

QueryText ==
    [ lebron_james |->
          <<"l","e","b","r","o","n"," ","j","a","m","e","s">>,
      draft_weight |->
          <<"d","r","a","f","t",":","w","a","r","r","i","o","r","s"," ","w","e","i","g","h","t",":","<","9","5">>,
      age_position |->
          <<"a","g","e",":",">","3","0"," ","p","o","s","i","t","i","o","n",":","p","g">>,
      age_only |->
          <<"a","g","e",":",">","3","0">>,
      names_age_gt |->
          <<"j","a","m","e","s"," ","j","o","r","d","a","n"," ","a","g","e",":",">","3","0">>,
      james_age_bad |->
          <<"j","a","m","e","s"," ","a","g","e",":","a","b","c">>,
      james_age_empty |->
          <<"j","a","m","e","s"," ","a","g","e",":",">">>,
      names_url |->
          <<"j","a","m","e","s"," ","j","o","r","d","a","n"," ","p","r","o","f","i","l","e","_","u","r","l",":","u","1">>,
      names_url_or |->
          <<"j","a","m","e","s"," ","j","o","r","d","a","n"," ","p","r","o","f","i","l","e","_","u","r","l",":","u","1"," ","p","r","o","f","i","l","e","_","u","r","l",":","\"","U","2","\"">>,
      url_only |->
          <<"p","r","o","f","i","l","e","_","u","r","l",":","u","1">>,
      unknown_field |->
          <<"f","o","o",":","j","a","m","e","s">>,
      position_pg |->
          <<"p","o","s","i","t","i","o","n","_","c","l","e","a","n",":","p","g">>,
      draft_gsw |->
          <<"d","r","a","f","t",":","g","s","w">>,
      james_weight_ge |->
          <<"j","a","m","e","s"," ","w","e","i","g","h","t",":",">","=","9","9">>,
      james_age_eq |->
          <<"j","a","m","e","s"," ","a","g","e",":","=","3","0">>,
      team_years |->
          <<"t","e","a","m",":","w","a","r","r","i","o","r","s"," ","y","e","a","r","s",":","<","3","7">>,
      no_posting |->
          <<"z","z","z">>,
      open_quote |->
          <<"j","a","m","e","s"," ","\"","l","e","b","r","o","n">>,
      upper |->
          <<"W","a","r","r","i","o","r","s"," ","P","G">>,
      name_quoted |->
          <<"n","a","m","e",":","\"","l","e","b","r","o","n"," ","j","a","m","e","s","\"">>,
      two_numeric |->
          <<"j","a","m","e","s"," ","a","g","e",":","<","=","3","6"," ","w","e","i","g","h","t",":","<","1","0","0">>,
      james_warriors |->
          <<"j","a","m","e","s"," ","d","r","a","f","t",":","w","a","r","r","i","o","r","s">>,
      guard_kg |->
          <<"p","o","s","i","t","i","o","n",":","g","u","a","r","d"," ","k","g",":","<","9","9">>,
      guard_pg |->
          <<"p","o","s","i","t","i","o","n",":","\"","g","u","a","r","d"," ","p","g","\"">>,
      names_age_between |->
          <<"j","a","m","e","s"," ","j","o","r","d","a","n"," ","a","g","e",":",">","2","6"," ","a","g","e",":","<","3","9">> ]

Queries == {QueryText[name] : name \in DOMAIN QueryText}

\* top_k ranges over 1..MaxTopK
MaxTopK == 2

\* (boost_field, boost_strength): no boost field, or the numeric field
\* weight at the command line's default strength 0.15
BoostOptions ==
    {[field |-> <<>>, strength |-> 0],
     [field |-> F.weight, strength |-> 15]}

(***************************************************************************)
(* State                                                                   *)
(*                                                                         *)
(* The build run (build_index.main) and the query process                  *)
(* (search_engine.main with interactive_loop) share only the files.        *)
(***************************************************************************)
VARIABLES
    df,                  \* the table read from the CSV file
    ontology,            \* the content of indexes/ontology.pkl
    synonyms_file,       \* the content of synonymsForSearch.json, or NoFile
    pc,                  \* position of build_index.main
    index,               \* main's local: the inverted index
    number_of_documents, \* main's local
    doc_meta,            \* main's local
    idf,                 \* main's local
    doc_norms,           \* main's local
    disk,                \* the pickle files written so far: name -> content
    engine,              \* the query process: its state and its SearchEngine
    call,                \* the arguments of the search call in progress
    ret,                 \* what that call returned or raised, and its locals
    probe                \* one call of a pure function: its arguments and its value

vars == <<df, ontology, synonyms_file, pc, index, number_of_documents, doc_meta,
          idf, doc_norms, disk, engine, call, ret, probe>>

OUT_FILES == <<"index.pkl", "idf.pkl", "doc_norms.pkl", "doc_meta.pkl">>

NoCall == [query |-> <<>>, top_k |-> 0, boost_field |-> <<>>, boost_strength |-> 0]

NoRet ==
    [raised |-> "", components |-> EmptyComponents, scores |-> <<>>,
     query_norm |-> 0, results |-> <<>>]

NoEngine == [state |-> "off", self |-> <<>>]

NoProbe == [op |-> "none", text |-> <<>>, n |-> 0, df_term |-> 0, table |-> <<>>,
            boost |-> [field |-> <<>>, strength |-> 0], done |-> FALSE, out |-> <<>>]

Init ==
    /\ df \in Tables
    /\ ontology \in Ontologies
    /\ synonyms_file \in SynonymFiles
    /\ pc = "start"
    /\ index = EmptyIndex
    /\ number_of_documents = 0
    /\ doc_meta = EmptyDict
    /\ idf = EmptyDict
    /\ doc_norms = EmptyDict
    /\ disk = EmptyDict
    /\ engine = NoEngine
    /\ call = NoCall
    /\ ret = NoRet
    /\ probe = NoProbe

inputs == <<df, ontology, synonyms_file>>

serving == <<engine, call, ret>>

(***************************************************************************)
(* build_index.main, lines 189-202                                         *)
(***************************************************************************)
\* line 191: build_index(df); the tokenizer's exception ends the run
MainBuildIndex ==
    /\ pc = "start"
    /\ LET built == build_index(df)
       IN  IF built.raised
           THEN /\ pc' = "crashed"
                /\ UNCHANGED <<index, number_of_documents, doc_meta>>
           ELSE /\ pc' = "built"
                /\ index' = built.index
                /\ number_of_documents' = built.number_of_documents
                /\ doc_meta' = built.doc_meta
    /\ UNCHANGED <<inputs, probe, idf, doc_norms, disk, serving>>

\* lines 192-194
MainAddOntology ==
    /\ pc = "built"
    /\ index' = add_ontology_to_index(index, ontology)
    /\ pc' = "augmented"
    /\ UNCHANGED <<inputs, probe, number_of_documents, doc_meta, idf, doc_norms, disk, serving>>

\* line 195
MainCountOntology ==
    /\ pc = "augmented"
    /\ number_of_documents' = number_of_documents + 1
    /\ pc' = "counted"
    /\ UNCHANGED <<inputs, probe, index, doc_meta, idf, doc_norms, disk, serving>>

\* the weights computed as soon as build_index has returned
MainComputeIdfAndNorms_before_ontology ==
    /\ pc \in {"built", "counted"}
    /\ LET weighted == compute_idf_and_norms(index, number_of_documents)
       IN  /\ idf' = weighted.idf
           /\ doc_norms' = weighted.doc_norms
    /\ pc' = "weighted"
    /\ UNCHANGED <<inputs, probe, index, number_of_documents, doc_meta, disk, serving>>

\* lines 196-197
MainComputeIdfAndNorms ==
    /\ pc = "counted"
    /\ LET weighted == compute_idf_and_norms(index, number_of_documents)
       IN  /\ idf' = weighted.idf
           /\ doc_norms' = weighted.doc_norms
    /\ pc' = "weighted"
    /\ UNCHANGED <<inputs, probe, index, number_of_documents, doc_meta, disk, serving>>

\* lines 199-202: the four persist calls, one file per step
MainPersist ==
    /\ pc = "weighted"
    /\ LET k == Cardinality(DOMAIN disk) + 1
           obj == CASE k = 1 -> index [] k = 2 -> idf
                    [] k = 3 -> doc_norms [] k = 4 -> doc_meta
       IN  /\ disk' = Put(disk, OUT_FILES[k], obj)
           /\ pc' = IF k = Len(OUT_FILES) THEN "done" ELSE pc
    /\ UNCHANGED <<inputs, probe, index, number_of_documents, doc_meta, idf, doc_norms, serving>>

(***************************************************************************)
(* search_engine.main and interactive_loop, lines 397-485                  *)
(***************************************************************************)
\* lines 459-465: SearchEngine(...); load_pickle raises FileNotFoundError
\* when a file is missing and the process ends
EngineStart ==
    /\ engine.state \in {"off", "crashed"}
    /\ IF Range(OUT_FILES) \subseteq DOMAIN disk
       THEN engine' = [state |-> "idle",
                       self |-> SearchEngine([index |-> disk["index.pkl"],
                                              idf |-> disk["idf.pkl"],
                                              doc_norms |-> disk["doc_norms.pkl"],
                                              doc_meta |-> disk["doc_meta.pkl"]],
                                             synonyms_file)]
       ELSE engine' = [state |-> "crashed", self |-> <<>>]
    /\ call' = NoCall
    /\ ret' = NoRet
    /\ UNCHANGED <<inputs, probe, pc, index, number_of_documents, doc_meta, idf, doc_norms, disk>>

\* a search that leaves an empty entry for its query in the synonym table,
\* as indexing the defaultdict would
Search_inserting ==
    /\ engine.state = "idle"
    /\ \E query \in Queries, top_k \in 1..MaxTopK, boost \in BoostOptions :
          LET r == search(engine.self, query, top_k, boost.field, boost.strength)
          IN  /\ call' = [query |-> query, top_k |-> top_k,
                          boost_field |-> boost.field, boost_strength |-> boost.strength]
              /\ ret' = r
              /\ engine' = [state |-> IF r.raised # "" THEN "crashed" ELSE "answered",
                            self |-> [engine.self EXCEPT
                                         !.term_synonyms =
                                             IF query \in DOMAIN @ THEN @
                                             ELSE Put(@, query, <<>>)]]
    /\ UNCHANGED <<inputs, probe, pc, index, number_of_documents, doc_meta, idf, doc_norms, disk>>

\* lines 406-418: a query read at the prompt (it is not empty, and stripped)
\* and engine.search(query, top_k, boost_field, boost_strength); an
\* exception of search is not caught and ends the process
Search ==
    /\ engine.state = "idle"
    /\ \E query \in Queries, top_k \in 1..MaxTopK, boost \in BoostOptions :
          LET r == search(engine.self, query, top_k, boost.field, boost.strength)
          IN  /\ call' = [query |-> query, top_k |-> top_k,
                          boost_field |-> boost.field, boost_strength |-> boost.strength]
              /\ ret' = r
              /\ engine' = [engine EXCEPT !.state =
                               IF r.raised # "" THEN "crashed" ELSE "answered"]
    /\ UNCHANGED <<inputs, probe, pc, index, number_of_documents, doc_meta, idf, doc_norms, disk>>

\* lines 420-427: the results are printed and the loop reads the next query
PrintResults ==
    /\ engine.state = "answered"
    /\ engine' = [engine EXCEPT !.state = "idle"]
    /\ call' = NoCall
    /\ ret' = NoRet
    /\ UNCHANGED <<inputs, probe, pc, index, number_of_documents, doc_meta, idf, doc_norms, disk>>

\* lines 405-411: end of input or an empty line ends the loop and the process
Quit ==
    /\ engine.state = "idle"
    /\ engine' = NoEngine
    /\ UNCHANGED <<inputs, probe, pc, index, number_of_documents, doc_meta, idf, doc_norms, disk,
                   call, ret>>

Next ==
    \/ MainBuildIndex
    \/ MainAddOntology
    \/ MainCountOntology
    \/ MainComputeIdfAndNorms
    \/ MainPersist
    \/ EngineStart
    \/ Search
    \/ PrintResults
    \/ Quit

Spec == Init /\ [][Next]_vars

(***************************************************************************)
(* expand_query_with_ontology, src/semantic_search_athletes.py             *)
(***************************************************************************)
\* a in b for two str
IsSubstring(a, b) ==
    \E i \in 0..(Len(b) - Len(a)) : SubSeq(b, i + 1, i + Len(a)) = a

\* the strings of the entry that hold the term
MatchedStrings(term, subj, objs) ==
    {s \in {subj} \cup objs : IsSubstring(term, StrLower(s))}

\* the subject and the objects of the entry, whether or not it matches
expand_query_with_ontology_every_entry(onto, term) ==
    UNION {UNION {{subj} \cup onto.relationships[p][subj] :
                     subj \in DOMAIN onto.relationships[p]} :
             p \in DOMAIN onto.relationships}

\* lines 15-21: the set of expansions before list() puts it in some order
expand_query_with_ontology(onto, term) ==
    UNION {UNION {IF MatchedStrings(StrLower(term), subj, onto.relationships[p][subj]) # {}
                  THEN {subj} \cup onto.relationships[p][subj]
                  ELSE {} :
                     subj \in DOMAIN onto.relationships[p]} :
             p \in DOMAIN onto.relationships}

\* line 22: list(expansions), the elements of the set in one of their orders
ListsOf(S) == {q \in [1..Cardinality(S) -> S] : Range(q) = S}

(***************************************************************************)
(* The pure functions of build_index.py and of semantic_search_athletes.py *)
(* called on their own: the argument is drawn in the initial state and one *)
(* step computes the value.                                                *)
(***************************************************************************)
\* the characters of the texts handed to simple_tokenize
TextAlphabet == {"n", "a", " ", "[", "]", "'"}

\* the texts have at most this many characters
MaxTextLen == 5

Texts == UNION {[1..k -> TextAlphabet] : k \in 0..MaxTextLen}

\* number_of_documents ranges over 0..MaxN
MaxN == 8


\* the tables handed to main: those of the build run, and tables with the
\* row without text
MainTables == Tables \cup {<<Rows.G>>, <<Rows.A, Rows.G>>, <<Rows.G, Rows.E, Rows.F>>}

\* the terms handed to expand_query_with_ontology
ExpandTerms ==
    {<<>>, <<"c","u","r","r","y">>, <<"C","U","R">>, <<"J","a","m">>, <<"a","k">>,
     <<"w","a","r","r","i","o","r","s">>, <<"s","t","a","t","e">>, <<"x","y","z">>}

\* the calls of search with a boost field: tables whose numeric fields have
\* no value, no positive value, or positive values; boost fields that are
\* numeric, a text field and no field of the dataset; the strengths 0 and
\* 0.15
BoostProbes ==
    {[NoProbe EXCEPT !.op = "search", !.table = t, !.text = q, !.n = k,
                     !.boost = [field |-> f, strength |-> x]] :
        t \in {<<Rows.C>>, <<Rows.C, Rows.F>>, <<Rows.B, Rows.F>>,
               <<Rows.A, Rows.C, Rows.E>>},
        q \in {QueryText.lebron_james,
               <<"j","a","m","e","s"," ","b","u","l","l","s">>},
        k \in 1..MaxTopK,
        f \in {F.age, F.weight, F.draft, <<"f","o","o">>},
        x \in {0, 15}}

Probes ==
    {[NoProbe EXCEPT !.op = "simple_tokenize", !.text = x] : x \in Texts}
    \cup UNION {{[NoProbe EXCEPT !.op = "idf_value", !.n = n, !.df_term = d] :
                   d \in 1..n} : n \in 0..MaxN}
    \cup {[NoProbe EXCEPT !.op = "main", !.table = t] : t \in MainTables}
    \cup {[NoProbe EXCEPT !.op = "expand", !.text = x] : x \in ExpandTerms}
    \cup BoostProbes

PureInit ==
    /\ df = <<>>
    /\ ontology \in Ontologies \cup {OntologyB}
    /\ synonyms_file = NoFile
    /\ pc = "start"
    /\ index = EmptyIndex
    /\ number_of_documents = 0
    /\ doc_meta = EmptyDict
    /\ idf = EmptyDict
    /\ doc_norms = EmptyDict
    /\ disk = EmptyDict
    /\ engine = NoEngine
    /\ call = NoCall
    /\ ret = NoRet
    /\ probe \in Probes

\* build_index.py lines 54-75: simple_tokenize(x), and simple_tokenize of
\* the " ".join of its tokens
CallSimpleTokenize ==
    /\ probe.op = "simple_tokenize"
    /\ ~probe.done
    /\ probe' = [probe EXCEPT
                    !.done = TRUE,
                    !.out = With(simple_tokenize(PyStr(probe.text)),
                                 LAMBDA once :
                                     [once |-> once,
                                      twice |-> simple_tokenize(PyStr(JoinSpace(once)))])]
    /\ UNCHANGED <<inputs, pc, index, number_of_documents, doc_meta, idf, doc_norms, disk,
                   serving>>

\* build_index.py line 148 for one number_of_documents and one df_term of
\* at most that many documents
CallIdfValue ==
    /\ probe.op = "idf_value"
    /\ ~probe.done
    /\ probe' = [probe EXCEPT !.done = TRUE, !.out = IdfValue(probe.n, probe.df_term)]
    /\ UNCHANGED <<inputs, pc, index, number_of_documents, doc_meta, idf, doc_norms, disk,
                   serving>>

\* build_index.py lines 191-197 in one step, for a table the tokenizer
\* accepts: the augmented index, the count and the weights
CallMain ==
    /\ probe.op = "main"
    /\ ~probe.done
    /\ ~build_index(probe.table).raised
    /\ probe' = [probe EXCEPT
                    !.done = TRUE,
                    !.out = With(add_ontology_to_index(build_index(probe.table).index,
                                                       ontology),
                                 LAMBDA augmented :
                                     [index |-> augmented,
                                      number_of_documents |-> Len(probe.table) + 1,
                                      weighted |->
                                          compute_idf_and_norms(augmented,
                                                                Len(probe.table) + 1)])]
    /\ UNCHANGED <<inputs, pc, index, number_of_documents, doc_meta, idf, doc_norms, disk,
                   serving>>

\* semantic_search_athletes.py lines 14-22 for one term
CallExpand ==
    /\ probe.op = "expand"
    /\ ~probe.done
    /\ \E expansions \in ListsOf(expand_query_with_ontology(ontology, probe.text)) :
           probe' = [probe EXCEPT !.done = TRUE, !.out = expansions]
    /\ UNCHANGED <<inputs, pc, index, number_of_documents, doc_meta, idf, doc_norms, disk,
                   serving>>

\* the engine loaded from the artifacts of a build run over the table
EngineOf(table, onto) ==
    With(add_ontology_to_index(build_index(table).index, onto),
         LAMBDA augmented :
             With(compute_idf_and_norms(augmented, Len(table) + 1),
                  LAMBDA weighted :
                      SearchEngine([index |-> augmented,
                                    idf |-> weighted.idf,
                                    doc_norms |-> weighted.doc_norms,
                                    doc_meta |-> build_index(table).doc_meta],
                                   NoFile)))

\* search_engine.py lines 213-266 called with the boost field and called
\* without one, on the same engine
CallSearch ==
    /\ probe.op = "search"
    /\ ~probe.done
    /\ ~build_index(probe.table).raised
    /\ probe' = [probe EXCEPT
                    !.done = TRUE,
                    !.out = With(EngineOf(probe.table, ontology),
                                 LAMBDA self :
                                     [self |-> self,
                                      boosted |-> search(self, probe.text, probe.n,
                                                         probe.boost.field,
                                                         probe.boost.strength),
                                      plain |-> search(self, probe.text, probe.n, <<>>, 0)])]
    /\ UNCHANGED <<inputs, pc, index, number_of_documents, doc_meta, idf, doc_norms, disk,
                   serving>>

PureNext ==
    \/ CallSimpleTokenize
    \/ CallIdfValue
    \/ CallMain
    \/ CallExpand
    \/ CallSearch

PureSpec == PureInit /\ [][PureNext]_vars


(***************************************************************************)
(* Properties of SearchEngine.search.  They read the call and its outcome  *)
(* (call, ret) and the artifacts the engine loaded (engine.self), and      *)
(* state what a filter asks of a document directly on the index tables.    *)
(***************************************************************************)
\* the call returned its list to interactive_loop
Answered == engine.state = "answered"

\* the doc_ids of the returned list, and of the score accumulator
ReturnedDocs == {ret.results[i].doc_id : i \in 1..Len(ret.results)}

CandidateDocs == {ret.scores[i].doc_id : i \in 1..Len(ret.scores)}

\* the numeric table of the field records a value for the document
HasNumber(field, doc_id) ==
    /\ field \in DOMAIN engine.self.index.numeric
    /\ doc_id \in DOMAIN engine.self.index.numeric[field]

NumberOf(field, doc_id) == engine.self.index.numeric[field][doc_id]

\* the postings of the term in the text field hold the document
HasPosting(field, term, doc_id) ==
    /\ field \in DOMAIN engine.self.index.text
    /\ term \in DOMAIN engine.self.index.text[field]
    /\ doc_id \in DOMAIN engine.self.index.text[field][term]

\* the document's DocMeta value of the field, trimmed and lower-cased
StoredKeyword(field, doc_id) ==
    StrLower(StrStrip(PyStrOf(RowGet(engine.self.doc_meta[doc_id], field)), WhiteSpace))

\* what one numeric filter [field, comparator, value] asks of a document
SatisfiesNumeric(doc_id, nf) ==
    /\ HasNumber(nf.field, doc_id)
    /\ ~nf.value.nan
    /\ nf.comparator = <<">">> => NumberOf(nf.field, doc_id) > nf.value.v
    /\ nf.comparator = <<">", "=">> => NumberOf(nf.field, doc_id) >= nf.value.v
    /\ nf.comparator = <<"<">> => NumberOf(nf.field, doc_id) < nf.value.v
    /\ nf.comparator = <<"<", "=">> => NumberOf(nf.field, doc_id) <= nf.value.v
    /\ nf.comparator = <<"=">> => IsClose(NumberOf(nf.field, doc_id), nf.value.v)

\* what the keyword filters of one field ask of a document
SatisfiesKeyword(doc_id, field, values) ==
    /\ doc_id \in DOMAIN engine.self.doc_meta
    /\ StoredKeyword(field, doc_id) \in values

\* what the required groups of one field ask of a document
SatisfiesRequired(doc_id, field, groups) ==
    \A i \in 1..Len(groups) : \E term \in groups[i] : HasPosting(field, term, doc_id)

W_warriors == <<"w","a","r","r","i","o","r","s">>

\* C1: every returned document satisfies every numeric filter, the keyword
\* filters of every field and every required group of the query at once;
\* for 'draft:warriors weight:<95' every result has 'warriors' among its
\* draft postings and a recorded weight below 95
C1_AllFiltersHold ==
    Answered =>
        \A d \in ReturnedDocs :
            /\ \A i \in 1..Len(ret.components.numeric_filters) :
                   SatisfiesNumeric(d, ret.components.numeric_filters[i])
            /\ \A f \in DOMAIN ret.components.keyword_filters :
                   SatisfiesKeyword(d, f, Range(ret.components.keyword_filters[f]))
            /\ \A f \in DOMAIN ret.components.required_terms :
                   SatisfiesRequired(d, f, ret.components.required_terms[f])
            /\ call.query = QueryText.draft_weight =>
                   /\ HasPosting(F.draft, W_warriors, d)
                   /\ HasNumber(F.weight, d)
                   /\ NumberOf(F.weight, d) < 9500

\* 'draft:warriors weight:<95' answered with a document, while a candidate
\* that accumulated a higher score is left out because its weight is not
\* below 95
C1_Witness ==
    /\ Answered
    /\ call.query = QueryText.draft_weight
    /\ ret.results # <<>>
    /\ \E i \in 1..Len(ret.scores) :
          /\ ret.scores[i].doc_id \notin ReturnedDocs
          /\ ret.scores[i].score > ret.results[1].tf_idf_score
          /\ HasNumber(F.weight, ret.scores[i].doc_id)
          /\ NumberOf(F.weight, ret.scores[i].doc_id) >= 9500


\* C2: for a numeric filter with comparator '>' and value v, no returned
\* document has a recorded value <= v in the field's numeric table, and
\* none lacks a recorded value; 'james jordan age:>30' is parsed to the
\* filter age > 30.0 and returns only documents of recorded age above 30
C2_GreaterThanFilter ==
    Answered =>
        /\ \A d \in ReturnedDocs :
               \A i \in 1..Len(ret.components.numeric_filters) :
                   ret.components.numeric_filters[i].comparator = <<">">> =>
                       /\ HasNumber(ret.components.numeric_filters[i].field, d)
                       /\ ~(NumberOf(ret.components.numeric_filters[i].field, d)
                              <= ret.components.numeric_filters[i].value.v)
        /\ call.query = QueryText.names_age_gt =>
               /\ ret.components.numeric_filters =
                      <<[field |-> F.age, comparator |-> <<">">>, value |-> FloatOk(3000)]>>
               /\ \A d \in ReturnedDocs : HasNumber(F.age, d) /\ NumberOf(F.age, d) > 3000

\* 'james jordan age:>30' answered with a document, while one candidate of
\* recorded age exactly 30 and one candidate without a recorded age are
\* left out
C2_Witness ==
    /\ Answered
    /\ call.query = QueryText.names_age_gt
    /\ ret.results # <<>>
    /\ \E d \in CandidateDocs \ ReturnedDocs : HasNumber(F.age, d) /\ NumberOf(F.age, d) = 3000
    /\ \E d \in CandidateDocs \ ReturnedDocs : ~HasNumber(F.age, d)


W_u1 == <<"u","1">>

W_u2 == <<"u","2">>

W_u12 == <<"u","1","2">>

\* the candidate passes every filter of the query that is not a keyword
\* filter, and has a norm
PassesOtherThanKeyword(doc_id) ==
    /\ \A i \in 1..Len(ret.components.numeric_filters) :
           SatisfiesNumeric(doc_id, ret.components.numeric_filters[i])
    /\ \A f \in DOMAIN ret.components.required_terms :
           SatisfiesRequired(doc_id, f, ret.components.required_terms[f])
    /\ doc_id \in DOMAIN engine.self.doc_norms
    /\ engine.self.doc_norms[doc_id] # 0

\* C3: a keyword filter passes a document iff the document's stored value
\* of the field, trimmed and lower-cased, equals one of the requested values
\* (lower-cased, quotes stripped); the values given for one field are
\* alternatives, every filtered field must match, and a value that only
\* contains or extends a requested one never passes.  Only if: every
\* returned document matches in every filtered field.  If: a candidate that
\* matches in every filtered field and passes the other filters is returned
\* unless top_k documents are.
C3_KeywordExactMatch ==
    Answered =>
        /\ \A d \in ReturnedDocs :
               \A f \in DOMAIN ret.components.keyword_filters :
                   /\ d \in DOMAIN engine.self.doc_meta
                   /\ \E i \in 1..Len(ret.components.keyword_filters[f]) :
                          StoredKeyword(f, d) = ret.components.keyword_filters[f][i]
        /\ \A d \in CandidateDocs \cap DOMAIN engine.self.doc_meta :
               (/\ PassesOtherThanKeyword(d)
                /\ \A f \in DOMAIN ret.components.keyword_filters :
                       StoredKeyword(f, d) \in Range(ret.components.keyword_filters[f]))
               => (d \in ReturnedDocs \/ Len(ret.results) = call.top_k)
        /\ call.query = QueryText.names_url_or =>
               /\ ret.components.keyword_filters = (F.profile_url :> <<W_u1, W_u2>>)
               /\ \A d \in ReturnedDocs : StoredKeyword(F.profile_url, d) \in {W_u1, W_u2}
        /\ call.query = QueryText.names_url =>
               \A d \in ReturnedDocs : StoredKeyword(F.profile_url, d) # W_u12

\* 'james jordan profile_url:u1 profile_url:"U2"' returns a document stored
\* as " U1 " and a document stored as "u2", and leaves out a candidate
\* stored as "u12"
C3_Witness ==
    /\ Answered
    /\ call.query = QueryText.names_url_or
    /\ \E d \in ReturnedDocs :
          RowGet(engine.self.doc_meta[d], F.profile_url) = PyStr(<<" ","U","1"," ">>)
    /\ \E d \in ReturnedDocs : StoredKeyword(F.profile_url, d) = W_u2
    /\ \E d \in CandidateDocs \ ReturnedDocs : StoredKeyword(F.profile_url, d) = W_u12


W_guard == <<"g","u","a","r","d">>

W_sg == <<"s","g">>

W_pg == <<"p","g">>

W_gsw == <<"g","s","w">>

\* the group holds some token together with what each of its synonyms
\* contributes
TokenWithSynonyms(group) ==
    \E token \in group :
        group = {token}
                \cup UNION {SynonymOptions(synonym, simple_tokenize(PyStr(synonym))) :
                              synonym \in Range(Get(engine.self.term_synonyms, token, <<>>))}

\* C4: a field-qualified text token 'f:value' yields one required group per
\* token of the tokenized value, the token plus its synonyms, and a
\* document is returned only if, for every group of every qualified field,
\* field f has a posting of the document for at least one term of the
\* group.  With sg listed as a synonym of guard and of pg,
\* 'position:"guard pg"' asks for (guard or sg) and (pg or sg); with gsw
\* listed as a synonym of warriors, 'draft:gsw' asks for (gsw or warriors).
C4_RequiredGroups ==
    Answered =>
        /\ \A f \in DOMAIN ret.components.required_terms :
               /\ f \in Range(FIELDS_TO_INDEX)
               /\ \A i \in 1..Len(ret.components.required_terms[f]) :
                      /\ TokenWithSynonyms(ret.components.required_terms[f][i])
                      /\ \A d \in ReturnedDocs :
                             \E term \in ret.components.required_terms[f][i] :
                                 HasPosting(f, term, d)
        /\ (call.query = QueryText.guard_pg /\ synonyms_file = SynonymsB) =>
               /\ ret.components.required_terms =
                      (F.position_clean :> <<{W_guard, W_sg}, {W_pg, W_sg}>>)
               /\ \A d \in ReturnedDocs :
                      /\ HasPosting(F.position_clean, W_guard, d)
                           \/ HasPosting(F.position_clean, W_sg, d)
                      /\ HasPosting(F.position_clean, W_pg, d)
                           \/ HasPosting(F.position_clean, W_sg, d)
        /\ (call.query = QueryText.draft_gsw /\ synonyms_file = SynonymsA) =>
               ret.components.required_terms = (F.draft :> <<{W_gsw, W_warriors}>>)

\* 'position:"guard pg"' returns a document whose position holds neither
\* guard nor pg but their synonym sg, and leaves out a candidate that has a
\* posting for pg and none for the group of guard
C4_Witness ==
    /\ Answered
    /\ call.query = QueryText.guard_pg
    /\ synonyms_file = SynonymsB
    /\ \E d \in ReturnedDocs :
          /\ ~HasPosting(F.position_clean, W_guard, d)
          /\ ~HasPosting(F.position_clean, W_pg, d)
          /\ HasPosting(F.position_clean, W_sg, d)
    /\ \E d \in CandidateDocs \ ReturnedDocs :
          /\ HasPosting(F.position_clean, W_pg, d)
          /\ ~HasPosting(F.position_clean, W_guard, d)
          /\ ~HasPosting(F.position_clean, W_sg, d)


\* some (field, term) of the query's text terms has a posting for the
\* document
SharesTerm(doc_id) ==
    \E i \in 1..Len(ret.components.text_terms) :
        \E j \in 1..Len(ret.components.text_terms[i].counts) :
            HasPosting(ret.components.text_terms[i].key,
                       ret.components.text_terms[i].counts[j].key,
                       doc_id)

\* C5: a document is in the accumulator, and so in the results, only if
\* some (field, term) of the query's text terms has a posting for it; in
\* the corpus of A 'LeBron James', B 'Michael Jordan' and
\* C 'LeBron Raymone James' the query 'lebron james' scores A and C, never
\* B, and returns A and C when top_k admits two documents
C5_OnlyOverlappingDocs ==
    Answered =>
        /\ \A d \in CandidateDocs \cup ReturnedDocs : SharesTerm(d)
        /\ ReturnedDocs \subseteq CandidateDocs
        /\ (call.query = QueryText.lebron_james /\ df = <<Rows.A, Rows.B, Rows.C>>) =>
               /\ CandidateDocs = {0, 2}
               /\ ReturnedDocs \subseteq {0, 2}
               /\ call.top_k >= 2 => ReturnedDocs = {0, 2}

\* 'lebron james' answered on the corpus A, B, C with A and C, B having no
\* score
C5_Witness ==
    /\ Answered
    /\ call.query = QueryText.lebron_james
    /\ df = <<Rows.A, Rows.B, Rows.C>>
    /\ ReturnedDocs = {0, 2}
    /\ 1 \in DOMAIN engine.self.doc_norms
    /\ 1 \notin CandidateDocs


\* search was called and its outcome is at hand
Called == call.top_k # 0

\* the (field, term) contributes to the query vector: the term has postings
\* in the field and an IDF value
ScoredTerm(field, term) ==
    /\ field \in DOMAIN engine.self.index.text
    /\ term \in DOMAIN engine.self.index.text[field]
    /\ DOMAIN engine.self.index.text[field][term] # {}
    /\ field \in DOMAIN engine.self.idf
    /\ term \in DOMAIN engine.self.idf[field]
    /\ engine.self.idf[field][term] # 0

NoScoredTerm ==
    \A i \in 1..Len(ret.components.text_terms) :
        \A j \in 1..Len(ret.components.text_terms[i].counts) :
            ~ScoredTerm(ret.components.text_terms[i].key,
                        ret.components.text_terms[i].counts[j].key)

\* C6: when the parsed query has no scored term (only numeric and keyword
\* filter tokens, or no term with a posting and an IDF value), search
\* returns the empty list and raises nothing, whatever documents satisfy
\* the filters
C6_EmptyQueryVector ==
    /\ (Called /\ ~ret.components.raised /\ NoScoredTerm) =>
           /\ Answered
           /\ ret.raised = ""
           /\ ret.results = <<>>
           /\ ret.scores = <<>>
    /\ (Called /\ call.query \in {QueryText.age_only, QueryText.url_only, QueryText.no_posting}) =>
           /\ Answered
           /\ ret.results = <<>>

\* 'age:>30' answered with the empty list although some document has a
\* recorded age above 30
C6_Witness ==
    /\ Answered
    /\ call.query = QueryText.age_only
    /\ ret.components.numeric_filters # <<>>
    /\ ret.results = <<>>
    /\ \E d \in DOMAIN engine.self.doc_meta :
          \A i \in 1..Len(ret.components.numeric_filters) :
              SatisfiesNumeric(d, ret.components.numeric_filters[i])


W_position_pg == <<"p","o","s","i","t","i","o","n",":","p","g">>

\* the candidate passes the numeric filters and the required groups of the
\* query and has a norm
Survives(doc_id) ==
    /\ \A i \in 1..Len(ret.components.numeric_filters) :
           SatisfiesNumeric(doc_id, ret.components.numeric_filters[i])
    /\ \A f \in DOMAIN ret.components.required_terms :
           SatisfiesRequired(doc_id, f, ret.components.required_terms[f])
    /\ doc_id \in DOMAIN engine.self.doc_norms
    /\ engine.self.doc_norms[doc_id] # 0

\* C7 as the specification words it: 'age:>30 position:pg' has an empty
\* query vector and returns the empty list, whatever the index and the
\* aliases
C7_AsSpecified ==
    (Called /\ call.query = QueryText.age_position) =>
        /\ Answered
        /\ ret.scores = <<>>
        /\ ret.results = <<>>

\* C7: under the default aliases and under a configuration file that maps
\* position to no numeric or keyword field, 'age:>30 position:pg' raises
\* nothing.  age:>30 becomes the numeric filter age > 30.0 and there is no
\* keyword filter, but position:pg is not a filter-only token: where the
\* aliases resolve position to the text field position_clean its value is
\* scored in that field and required there, and otherwise (no alias, or the
\* loader's canonical name 'position clean', which no field list holds) the
\* whole token is free text whose tokens are scored in every text field.
\* The query has text terms, every returned document has a recorded age
\* above 30, and the list is empty exactly when no scored candidate passes
\* the filters.
C7_AgePositionQuery ==
    (Called /\ call.query = QueryText.age_position) =>
        /\ Answered
        /\ ret.raised = ""
        /\ ret.components.numeric_filters =
               <<[field |-> F.age, comparator |-> <<">">>, value |-> FloatOk(3000)]>>
        /\ ret.components.keyword_filters = EmptyDict
        /\ ret.components.text_terms # <<>>
        /\ IF synonyms_file = SynonymsB
           THEN /\ ret.components.general_terms = <<>>
                /\ ret.components.required_terms = (F.position_clean :> <<{W_pg, W_sg}>>)
                /\ ret.components.text_terms[1].key = F.position_clean
           ELSE /\ ret.components.general_terms = <<W_position_pg>>
                /\ ret.components.required_terms = EmptyDict
                /\ Len(ret.components.text_terms) = Len(FIELDS_TO_INDEX)
        /\ \A d \in ReturnedDocs : HasNumber(F.age, d) /\ NumberOf(F.age, d) > 3000
        /\ (ret.results = <<>>) <=> ~(\E d \in CandidateDocs : Survives(d))

\* 'age:>30 position:pg' answered, without any alias for position, with a
\* document of position PG and recorded age 36
C7_Witness ==
    /\ Answered
    /\ call.query = QueryText.age_position
    /\ synonyms_file = NoFile
    /\ \E d \in ReturnedDocs :
          /\ HasPosting(F.position_clean, W_pg, d)
          /\ NumberOf(F.age, d) = 3600


W_james == <<"j","a","m","e","s">>

\* the text of a numeric filter value after its leading comparator
AfterComparator(v) ==
    IF StartsWith(v, <<">", "=">>) \/ StartsWith(v, <<"<", "=">>)
    THEN SubSeq(v, 3, Len(v))
    ELSE IF StartsWith(v, <<">">>) \/ StartsWith(v, <<"<">>) \/ StartsWith(v, <<"=">>)
    THEN SubSeq(v, 2, Len(v))
    ELSE v

\* the token is field:value, the field resolves to a numeric field and the
\* value after the comparator is no float literal
MalformedNumericToken(token) ==
    /\ FindChar(token, ":", 1) # 0
    /\ normalise_field(engine.self, SubSeq(token, 1, FindChar(token, ":", 1) - 1))
         \in Range(FIELDS_NUMERIC)
    /\ ~FloatOfStr(AfterComparator(StrStrip(SubSeq(token, FindChar(token, ":", 1) + 1,
                                                   Len(token)),
                                            WhiteSpace))).ok

\* C8: a query token whose field resolves to a numeric field and whose
\* value, after the optional comparator, is no valid float literal makes
\* parse_query and search raise ValueError: no list is returned and the
\* filter is neither dropped, nor defaulted, nor scored as free text
\* ('james age:abc' and 'james age:>' raise); a numeric filter that was
\* recorded holds the value of a float literal
C8_MalformedNumericRaises ==
    /\ (Called /\ \E i \in 1..Len(shlex_split(call.query).tokens) :
                      MalformedNumericToken(shlex_split(call.query).tokens[i])) =>
           /\ engine.state = "crashed"
           /\ ret.raised = "ValueError"
           /\ ret.results = <<>>
           /\ ret.scores = <<>>
           /\ ret.components.numeric_filters = <<>>
           /\ ret.components.text_terms = <<>>
    /\ (Called /\ call.query \in {QueryText.james_age_bad, QueryText.james_age_empty}) =>
           /\ engine.state = "crashed"
           /\ ret.raised = "ValueError"
    /\ \A i \in 1..Len(ret.components.numeric_filters) :
           ret.components.numeric_filters[i].value.ok

\* 'james age:abc' raised ValueError on an index in which james has
\* postings
C8_Witness ==
    /\ engine.state = "crashed"
    /\ call.query = QueryText.james_age_bad
    /\ ret.raised = "ValueError"
    /\ \E d \in DOMAIN engine.self.doc_meta : HasPosting(F.player_name, W_james, d)


W_foo == <<"f","o","o">>

W_foo_james == <<"f","o","o",":","j","a","m","e","s">>

\* the field the token's part before the first colon resolves to
FieldOfToken(token) ==
    normalise_field(engine.self, SubSeq(token, 1, FindChar(token, ":", 1) - 1))

\* the token holds a colon and its field part resolves to no configured
\* text, numeric or keyword field
UnresolvedToken(token) ==
    /\ FindChar(token, ":", 1) # 0
    /\ FieldOfToken(token)
         \notin Range(FIELDS_TO_INDEX) \cup Range(FIELDS_NUMERIC) \cup Range(FIELDS_KEYWORD)

\* the term is counted among the query's text terms of every text field
ScoredEverywhere(term) ==
    \A k \in 1..Len(FIELDS_TO_INDEX) :
        \E i \in 1..Len(ret.components.text_terms) :
            /\ ret.components.text_terms[i].key = FIELDS_TO_INDEX[k]
            /\ \E j \in 1..Len(ret.components.text_terms[i].counts) :
                   ret.components.text_terms[i].counts[j].key = term

\* the tokens of the query that resolve to a field of the list
TokensInto(fields) ==
    {i \in 1..Len(shlex_split(call.query).tokens) :
        /\ FindChar(shlex_split(call.query).tokens[i], ":", 1) # 0
        /\ FieldOfToken(shlex_split(call.query).tokens[i]) \in Range(fields)}

\* C9: a token with a colon whose field part resolves to no configured
\* field is free text as a whole: the query raises nothing on its account,
\* the token is a general term, every token of its text (field part
\* included) is scored in every text field, and the filters and required
\* groups of the query are those of its other tokens.  'foo:james' has no
\* filter and no required group and scores foo and james in all text
\* fields.
C9_UnknownFieldIsFreeText ==
    (Called /\ ~ret.components.raised) =>
        /\ \A i \in 1..Len(shlex_split(call.query).tokens) :
               UnresolvedToken(shlex_split(call.query).tokens[i]) =>
                   /\ shlex_split(call.query).tokens[i] \in Range(ret.components.general_terms)
                   /\ \A term \in Range(simple_tokenize(PyStr(shlex_split(call.query).tokens[i]))) :
                          ScoredEverywhere(term)
        /\ Len(ret.components.numeric_filters) = Cardinality(TokensInto(FIELDS_NUMERIC))
        /\ DOMAIN ret.components.keyword_filters =
               {FieldOfToken(shlex_split(call.query).tokens[i]) : i \in TokensInto(FIELDS_KEYWORD)}
        /\ DOMAIN ret.components.required_terms =
               {FieldOfToken(shlex_split(call.query).tokens[i]) : i \in TokensInto(FIELDS_TO_INDEX)}
        /\ call.query = QueryText.unknown_field =>
               /\ Answered
               /\ ret.components.general_terms = <<W_foo_james>>
               /\ ret.components.numeric_filters = <<>>
               /\ ret.components.keyword_filters = EmptyDict
               /\ ret.components.required_terms = EmptyDict
               /\ ScoredEverywhere(W_foo)
               /\ ScoredEverywhere(W_james)
               /\ \A d \in DOMAIN engine.self.doc_meta :
                      HasPosting(F.player_name, W_james, d) => d \in CandidateDocs

\* 'foo:james' answered with a document that has james in its name
C9_Witness ==
    /\ Answered
    /\ call.query = QueryText.unknown_field
    /\ UnresolvedToken(W_foo_james)
    /\ \E d \in ReturnedDocs : HasPosting(F.player_name, W_james, d)


\* the candidates that pass every filter of the query and have a norm
Survivors ==
    {d \in CandidateDocs :
        /\ Survives(d)
        /\ \A f \in DOMAIN ret.components.keyword_filters :
               SatisfiesKeyword(d, f, Range(ret.components.keyword_filters[f]))}

\* the final score of a candidate: its accumulated score over the two
\* norms, boosted when the call names a boost field
FinalScore(doc_id) ==
    IF call.boost_field # <<>>
    THEN _apply_boost(engine.self, doc_id, call.boost_field,
                      Cosine(ret.scores[IndexOfDoc(ret.scores, doc_id, 1)].score,
                             engine.self.doc_norms[doc_id], ret.query_norm),
                      call.boost_strength)
    ELSE Cosine(ret.scores[IndexOfDoc(ret.scores, doc_id, 1)].score,
                engine.self.doc_norms[doc_id], ret.query_norm)

\* C10: the returned list is in non-increasing order of final score, holds
\* at most top_k entries, and is the head of the sorted list of all
\* surviving candidates: each survivor at most once with its final score,
\* as many as top_k admits, and no survivor left out has a strictly greater
\* final score than a returned one
C10_SortedTopK ==
    Answered =>
        /\ \A i \in 1..Len(ret.results) : \A j \in i..Len(ret.results) :
               ret.results[i].cosine_score >= ret.results[j].cosine_score
        /\ Len(ret.results) <= call.top_k
        /\ ReturnedDocs \subseteq Survivors
        /\ Cardinality(ReturnedDocs) = Len(ret.results)
        /\ Len(ret.results) = IF Cardinality(Survivors) < call.top_k
                              THEN Cardinality(Survivors)
                              ELSE call.top_k
        /\ \A i \in 1..Len(ret.results) :
               /\ ret.results[i].cosine_score = FinalScore(ret.results[i].doc_id)
               /\ \A d \in Survivors \ ReturnedDocs :
                      FinalScore(d) <= ret.results[i].cosine_score

\* a call with top_k = 2 returned two documents of different final score,
\* the better one not the first of the accumulator, and left out a survivor
\* of lower score
C10_Witness ==
    /\ Answered
    /\ call.top_k = 2
    /\ Len(ret.results) = 2
    /\ ret.results[1].cosine_score > ret.results[2].cosine_score
    /\ ret.scores[1].doc_id # ret.results[1].doc_id
    /\ \E d \in Survivors \ ReturnedDocs : FinalScore(d) < ret.results[2].cosine_score


\* the cosine of a candidate before any boost: its accumulated score over
\* the two norms
PlainCosine(doc_id) ==
    Cosine(ret.scores[IndexOfDoc(ret.scores, doc_id, 1)].score,
           engine.self.doc_norms[doc_id], ret.query_norm)

\* the largest value the numeric table of the field records
LargestNumber(field) ==
    CHOOSE m \in {NumberOf(field, d) : d \in DOMAIN engine.self.index.numeric[field]} :
        \A d \in DOMAIN engine.self.index.numeric[field] : NumberOf(field, d) <= m

\* the call names the numeric field weight as its boost field
BoostedCall == Answered /\ call.boost_field = F.weight

\* C11: with a boost field the returned list still holds every surviving
\* candidate top_k admits; a returned document without a recorded value of
\* the boost field has its plain cosine as final score, and one of recorded
\* value x has its cosine times 1 + strength * (x / largest recorded value)
C11_BoostKeepsCandidates ==
    BoostedCall =>
        /\ ReturnedDocs \subseteq Survivors
        /\ Len(ret.results) = IF Cardinality(Survivors) < call.top_k
                              THEN Cardinality(Survivors)
                              ELSE call.top_k
        /\ \A i \in 1..Len(ret.results) :
               IF HasNumber(F.weight, ret.results[i].doc_id)
               THEN ret.results[i].cosine_score =
                        (PlainCosine(ret.results[i].doc_id)
                           * (1000 + (call.boost_strength * 10
                                        * NumberOf(F.weight, ret.results[i].doc_id))
                                     \div LargestNumber(F.weight)))
                        \div 1000
               ELSE ret.results[i].cosine_score = PlainCosine(ret.results[i].doc_id)

\* a boosted call returns a document without a recorded weight, at its
\* plain cosine, next to a document whose recorded weight raised its score
C11_Witness ==
    /\ BoostedCall
    /\ \E i \in 1..Len(ret.results) :
          /\ ~HasNumber(F.weight, ret.results[i].doc_id)
          /\ ret.results[i].cosine_score = PlainCosine(ret.results[i].doc_id)
          /\ ret.results[i].cosine_score > 0
    /\ \E i \in 1..Len(ret.results) :
          /\ HasNumber(F.weight, ret.results[i].doc_id)
          /\ ret.results[i].cosine_score > PlainCosine(ret.results[i].doc_id)


(***************************************************************************)
(* Properties of simple_tokenize, build_index and compute_idf_and_norms    *)
(***************************************************************************)
\* C12: tokenization is idempotent; for every text x the tokens of the
\* space-joined tokens of x are the tokens of x
C12_TokenizeIdempotent ==
    (probe.op = "simple_tokenize" /\ probe.done) => probe.out.twice = probe.out.once


\* build_index returned to main: its index, untouched by the later steps,
\* is in the variable index
Built == pc = "built"

\* the cell of row doc_id (0-based) of the table for the field, None for a
\* column the table does not have
CellOf(doc_id, field) == RowGetNone(df[doc_id + 1], field)

\* the text is a decimal numeral: an optional sign, then digits with at
\* most one decimal point and at least one digit, blanks around it allowed
IsNumeral(s) ==
    LET t == StrStrip(s, WhiteSpace)
        body == IF t # <<>> /\ Head(t) \in {"+", "-"} THEN Tail(t) ELSE t
    IN  /\ \E i \in 1..Len(body) : body[i] \in Digits
        /\ \A i \in 1..Len(body) : body[i] \in Digits \cup {"."}
        /\ Cardinality({i \in 1..Len(body) : body[i] = "."}) <= 1

\* the cell holds a number: a float that is not NaN, or a numeral
HoldsNumber(cell) ==
    \/ cell.t = "num"
    \/ cell.t = "str" /\ IsNumeral(cell.s)

W_zero == <<"0">>

\* C13: after build_index a numeric cell that does not parse as a float, or
\* parses to NaN, leaves no entry for its (field, doc_id) in the numeric
\* table; every other cell of the row and every later row is indexed all
\* the same, a cell that holds a number has that number as its entry, and
\* the cell "0" has the entry 0
C13_UnparsedNumericOmitted ==
    Built =>
        /\ number_of_documents = Len(df)
        /\ DOMAIN doc_meta = 0..(Len(df) - 1)
        /\ \A f \in Range(FIELDS_NUMERIC) :
               /\ DOMAIN index.numeric[f] =
                      {d \in 0..(Len(df) - 1) : HoldsNumber(CellOf(d, f))}
               /\ \A d \in DOMAIN index.numeric[f] :
                      /\ index.numeric[f][d] = PyFloat(CellOf(d, f)).v
                      /\ CellOf(d, f) = PyStr(W_zero) => index.numeric[f][d] = 0

\* a built table in which a row with an unparseable age still has its
\* weight recorded, a row has no weight entry for its NaN cell, and a later
\* row of age "0" has the age entry 0
C13_Witness ==
    /\ Built
    /\ \E d1 \in DOMAIN doc_meta, d2 \in DOMAIN doc_meta :
          /\ d1 < d2
          /\ CellOf(d1, F.age).t = "str"
          /\ d1 \notin DOMAIN index.numeric[F.age]
          /\ d1 \in DOMAIN index.numeric[F.weight]
          /\ CellOf(d2, F.age) = PyStr(W_zero)
          /\ d2 \in DOMAIN index.numeric[F.age]
          /\ index.numeric[F.age][d2] = 0
          /\ CellOf(d2, F.weight) = PyNaN
          /\ d2 \notin DOMAIN index.numeric[F.weight]


\* the cell is missing: the column is absent, or the cell is empty (read
\* as NaN), None, or the empty text
MissingCell(cell) == cell.t \in {"nan", "none"} \/ cell = PyStr(<<>>)

\* the tables of the index hold nothing for the document in the field
NoTextPosting(field, doc_id) ==
    \A t \in DOMAIN index.text[field] : doc_id \notin DOMAIN index.text[field][t]

NoKeywordEntry(field, doc_id) ==
    \A v \in DOMAIN index.keyword[field] : doc_id \notin Range(index.keyword[field][v])

\* C14: build_index does not fail on a row whose cell of a declared field
\* is missing, and adds no text posting, no numeric entry and no keyword
\* entry for that (field, doc_id)
C14_MissingCellAbsent ==
    /\ pc # "crashed"
    /\ Built =>
           \A d \in 0..(Len(df) - 1) :
               /\ \A f \in Range(FIELDS_TO_INDEX) :
                      MissingCell(CellOf(d, f)) => NoTextPosting(f, d)
               /\ \A f \in Range(FIELDS_NUMERIC) :
                      MissingCell(CellOf(d, f)) => d \notin DOMAIN index.numeric[f]
               /\ \A f \in Range(FIELDS_KEYWORD) :
                      MissingCell(CellOf(d, f)) => NoKeywordEntry(f, d)


\* main has called add_ontology_to_index, and has adjusted the count
Augmented == pc \in {"augmented", "counted", "weighted", "done"}

Counted == pc \in {"counted", "weighted", "done"}

Weighted == pc \in {"weighted", "done"}

\* C15: after the ontology augmentation the document count is the number
\* of rows plus exactly 1, and that count is the N of every IDF value; the
\* postings of every configured text field, the numeric table and the
\* keyword table are those build_index returned, and the only text field
\* added is 'ontology'
C15_OntologyFrame ==
    /\ Augmented =>
           With(IndexRows(EmptyIndex, df, 1),
                LAMBDA built :
                    /\ \A f \in Range(FIELDS_TO_INDEX) : index.text[f] = built.text[f]
                    /\ index.numeric = built.numeric
                    /\ index.keyword = built.keyword
                    /\ DOMAIN index.text = Range(FIELDS_TO_INDEX) \cup {F.ontology})
    /\ pc = "augmented" => number_of_documents = Len(df)
    /\ Counted => number_of_documents = Len(df) + 1
    /\ Weighted =>
           \A f \in DOMAIN idf : \A t \in DOMAIN idf[f] :
               idf[f][t] = IdfValue(Len(df) + 1, Cardinality(DOMAIN index.text[f][t]))

\* the weights are computed for a table of two rows or more whose ontology
\* field holds the pseudo-document under the term 'james', a term that also
\* has postings of real documents in player_name
C15_Witness ==
    /\ Weighted
    /\ Len(df) >= 2
    /\ number_of_documents = Len(df) + 1
    /\ W_james \in DOMAIN index.text[F.ontology]
    /\ DOMAIN index.text[F.ontology][W_james] = {OntologyDocId}
    /\ W_james \in DOMAIN index.text[F.player_name]
    /\ OntologyDocId \notin DOMAIN index.text[F.player_name][W_james]


\* C16: after a build with ontology augmentation the field 'ontology' is
\* weighted and scored like every other text field; each of its terms has
\* an IDF entry, the pseudo-document has a norm made of its weights in that
\* field, and the free-text terms of a query are scored against that field
C16_OntologyScored ==
    /\ Weighted =>
           /\ F.ontology \in DOMAIN idf
           /\ DOMAIN idf[F.ontology] = DOMAIN index.text[F.ontology]
           /\ DOMAIN index.text[F.ontology] # {} => OntologyDocId \in DOMAIN doc_norms
    /\ (Answered /\ ret.components.text_terms # <<>>) =>
           \E i \in 1..Len(ret.components.text_terms) :
               ret.components.text_terms[i].key = F.ontology


\* the IDF value of probe.n documents and probe.df_term postings is computed
IdfComputed == probe.op = "idf_value" /\ probe.done

\* the weights of a whole table are computed
MainComputed == probe.op = "main" /\ probe.done

\* C17: for every N and every df with 1 <= df <= N the IDF value
\* log10((N + 1) / (df + 1)) + 1.0 is at least 1 (so strictly positive),
\* it is exactly 1 for df = N, and no smaller df gives a smaller value;
\* every term of a built index has df <= N and a positive stored IDF value
C17_IdfPositive ==
    /\ IdfComputed =>
           /\ probe.out >= 1000
           /\ probe.df_term = probe.n => probe.out = 1000
           /\ \A d \in 1..probe.df_term : IdfValue(probe.n, d) >= probe.out
    /\ MainComputed =>
           \A f \in DOMAIN probe.out.weighted.idf :
               \A t \in DOMAIN probe.out.weighted.idf[f] :
                   /\ Cardinality(DOMAIN probe.out.index.text[f][t])
                          <= probe.out.number_of_documents
                   /\ probe.out.weighted.idf[f][t] > 0

\* the degenerate case: every one of three or more documents holds the
\* term, the value is exactly 1, and a term of one document weighs more
C17_Witness ==
    /\ IdfComputed
    /\ probe.n >= 3
    /\ probe.df_term = probe.n
    /\ probe.out = 1000
    /\ IdfValue(probe.n, 1) > probe.out


\* some configured text field of the computed index has a posting of the
\* document
HasTextPosting(doc_id) ==
    \E f \in Range(FIELDS_TO_INDEX) :
        \E t \in DOMAIN probe.out.index.text[f] :
            doc_id \in DOMAIN probe.out.index.text[f][t]

\* no configured text field of the row yields a token
NoTextToken(row) ==
    \A f \in Range(FIELDS_TO_INDEX) : simple_tokenize(RowGet(row, f)) = <<>>

\* C18: after compute_idf_and_norms a doc_id has a norm entry exactly when
\* some configured text field has a posting of it; a document without any
\* indexed text token has no entry, and every stored norm is >= 0
C18_NormEntries ==
    MainComputed =>
        /\ \A d \in (-1)..(Len(probe.table) - 1) :
               d \in DOMAIN probe.out.weighted.doc_norms <=> HasTextPosting(d)
        /\ DOMAIN probe.out.weighted.doc_norms \subseteq (-1)..(Len(probe.table) - 1)
        /\ \A d \in 0..(Len(probe.table) - 1) :
               NoTextToken(probe.table[d + 1]) =>
                   d \notin DOMAIN probe.out.weighted.doc_norms
        /\ \A d \in DOMAIN probe.out.weighted.doc_norms :
               probe.out.weighted.doc_norms[d] >= 0

\* the weights of a table are computed in which one row has no text token
\* and no norm entry while another row has a positive norm
C18_Witness ==
    /\ MainComputed
    /\ \E d1 \in 0..(Len(probe.table) - 1), d2 \in 0..(Len(probe.table) - 1) :
          /\ NoTextToken(probe.table[d1 + 1])
          /\ d1 \notin DOMAIN probe.out.weighted.doc_norms
          /\ d2 \in DOMAIN probe.out.weighted.doc_norms
          /\ probe.out.weighted.doc_norms[d2] > 0


\* the engine as SearchEngine.__init__ builds it from the files on disk
LoadedEngine ==
    SearchEngine([index |-> disk["index.pkl"],
                  idf |-> disk["idf.pkl"],
                  doc_norms |-> disk["doc_norms.pkl"],
                  doc_meta |-> disk["doc_meta.pkl"]],
                 synonyms_file)

FieldTokens(doc_id, field) == simple_tokenize(RowGet(df[doc_id + 1], field))

\* how often the term occurs among them
Occurrences(doc_id, field, term) ==
    Cardinality({i \in 1..Len(FieldTokens(doc_id, field)) :
                    FieldTokens(doc_id, field)[i] = term})

\* C20: after build_index the doc_ids are the 0-based row ordinals, the
\* text fields are the configured ones, and index.text[f][t] has an entry
\* for document d exactly when t is a token of field f of row d; the entry
\* is the number of occurrences of t in that field of that row
C20_PostingsPerFieldAndDoc ==
    Built =>
        /\ DOMAIN index.text = Range(FIELDS_TO_INDEX)
        /\ DOMAIN doc_meta = 0..(Len(df) - 1)
        /\ \A d \in DOMAIN doc_meta : doc_meta[d] = df[d + 1]
        /\ \A f \in Range(FIELDS_TO_INDEX) :
               /\ DOMAIN index.text[f] =
                      UNION {Range(FieldTokens(d, f)) : d \in 0..(Len(df) - 1)}
               /\ \A t \in DOMAIN index.text[f] :
                      /\ DOMAIN index.text[f][t] =
                             {d \in 0..(Len(df) - 1) : t \in Range(FieldTokens(d, f))}
                      /\ \A d \in DOMAIN index.text[f][t] :
                             /\ index.text[f][t][d] = Occurrences(d, f, t)
                             /\ index.text[f][t][d] >= 1

\* a built table of two rows or more where a term occurs twice in the draft
\* cell of one row and once in the draft cell of another, and the column
\* 'shoots' of the table has left no posting
C20_Witness ==
    /\ Built
    /\ \E t \in DOMAIN index.text[F.draft] :
          \E d1 \in DOMAIN index.text[F.draft][t], d2 \in DOMAIN index.text[F.draft][t] :
              /\ index.text[F.draft][t][d1] = 2
              /\ index.text[F.draft][t][d2] = 1
    /\ \A d \in DOMAIN doc_meta : C_shoots \in DOMAIN df[d + 1]
    /\ \A f \in DOMAIN index.text : <<"r">> \notin DOMAIN index.text[f]


(***************************************************************************)
(* Properties of parse_query, the build run and the ranking                *)
(***************************************************************************)
\* no token holds a colon: the query is free text only
FreeTextOnly(tokens) == \A i \in 1..Len(tokens) : FindChar(tokens[i], ":", 1) = 0

\* the tokens of the synonyms of a token, one sequence per synonym
SynonymTokens(token) ==
    [s \in 1..Len(Get(engine.self.term_synonyms, token, <<>>)) |->
        simple_tokenize(PyStr(engine.self.term_synonyms[token][s]))]

\* how often the expansion of the pool yields the term: once per pool token
\* equal to it, and once per occurrence among the tokens of a synonym of a
\* pool token
PoolCount(pool, term) ==
    Cardinality({k \in 1..Len(pool) : pool[k] = term})
    + Cardinality(
        UNION {UNION {{<<k, s, m>> : m \in {n \in 1..Len(SynonymTokens(pool[k])[s]) :
                                               SynonymTokens(pool[k])[s][n] = term}} :
                      s \in DOMAIN SynonymTokens(pool[k])} :
               k \in 1..Len(pool)})

\* the terms the expansion of the pool yields
PoolTerms(pool) ==
    Range(pool)
    \cup UNION {UNION {Range(SynonymTokens(pool[k])[s]) : s \in DOMAIN SynonymTokens(pool[k])} :
                k \in 1..Len(pool)}

\* the counts of every text field of the query are the given Counter
SameCountsEverywhere(counts) ==
    /\ {ret.components.text_terms[i].key : i \in 1..Len(ret.components.text_terms)}
           = Range(FIELDS_TO_INDEX)
    /\ \A i \in 1..Len(ret.components.text_terms) :
           ret.components.text_terms[i].counts = counts

\* what parse_query makes of a query of colon-free tokens whose pooled text,
\* " ".join(general_terms), tokenizes to pool
FreeTextParsed(tokens, pool) ==
    /\ ret.components.general_terms = tokens
    /\ ret.components.required_terms = EmptyDict
    /\ ret.components.numeric_filters = <<>>
    /\ ret.components.keyword_filters = EmptyDict
    /\ IF pool = <<>>
       THEN ret.components.text_terms = <<>>
       ELSE /\ SameCountsEverywhere(ret.components.text_terms[1].counts)
            /\ {ret.components.text_terms[1].counts[j].key :
                   j \in 1..Len(ret.components.text_terms[1].counts)} = PoolTerms(pool)
            /\ \A j \in 1..Len(ret.components.text_terms[1].counts) :
                   ret.components.text_terms[1].counts[j].count =
                       PoolCount(pool, ret.components.text_terms[1].counts[j].key)

W_lebron == <<"l","e","b","r","o","n">>

\* C21: the tokens without a colon are pooled as general terms; for a
\* query of such tokens only, every configured text field gets the terms of
\* the expanded pool, each with the count the expansion yields it, the same
\* in every field, and the query has no required group, no numeric filter
\* and no keyword filter, so a returned document need not match every term
C21_FreeTextSpread ==
    (Called /\ ~ret.components.raised) =>
        With(shlex_split(call.query).tokens,
             LAMBDA tokens :
                 FreeTextOnly(tokens) =>
                     /\ FreeTextParsed(tokens, simple_tokenize(PyStr(JoinSpace(tokens))))
                     /\ (Answered /\ ret.query_norm # 0) =>
                            \/ Len(ret.results) = call.top_k
                            \/ ReturnedDocs = {d \in CandidateDocs :
                                                  Get(engine.self.doc_norms, d, 0) # 0})

\* 'lebron james' returns a document that has james in its name and lebron
\* in no text field
C21_Witness ==
    /\ Answered
    /\ call.query = QueryText.lebron_james
    /\ FreeTextOnly(shlex_split(call.query).tokens)
    /\ PoolCount(<<W_lebron, W_james>>, W_james) = 1
    /\ \E d \in ReturnedDocs :
          /\ HasPosting(F.player_name, W_james, d)
          /\ \A f \in Range(FIELDS_TO_INDEX) : ~HasPosting(f, W_lebron, d)


\* the doc_ids of the postings of one text field, of the numeric tables and
\* of the keyword posting lists of main's index
TextDocIds(field) ==
    UNION {DOMAIN index.text[field][t] : t \in DOMAIN index.text[field]}

NumericDocIds == UNION {DOMAIN index.numeric[f] : f \in DOMAIN index.numeric}

KeywordDocIds ==
    UNION {UNION {Range(index.keyword[f][v]) : v \in DOMAIN index.keyword[f]} :
             f \in DOMAIN index.keyword}

\* C22: once build_index has returned, before and after the ontology
\* augmentation, every doc_id of a text posting, a numeric table or a
\* keyword posting list is a key of DocMeta or the pseudo-document id -1,
\* and -1 occurs only in the postings of the text field 'ontology'
C22_DocIdsInDocMeta ==
    (Built \/ Augmented) =>
        /\ \A f \in DOMAIN index.text :
               /\ TextDocIds(f) \subseteq DOMAIN doc_meta \cup {OntologyDocId}
               /\ f # F.ontology => OntologyDocId \notin TextDocIds(f)
        /\ NumericDocIds \subseteq DOMAIN doc_meta
        /\ KeywordDocIds \subseteq DOMAIN doc_meta
        /\ OntologyDocId \notin DOMAIN doc_meta

\* an augmented index of a table of two rows or more: the last row has
\* text, numeric and keyword entries and -1 has postings in 'ontology'
C22_Witness ==
    /\ Augmented
    /\ Len(df) >= 2
    /\ \E f \in Range(FIELDS_TO_INDEX) : Len(df) - 1 \in TextDocIds(f)
    /\ Len(df) - 1 \in NumericDocIds
    /\ Len(df) - 1 \in KeywordDocIds
    /\ OntologyDocId \in TextDocIds(F.ontology)


\* the posting list of the term in the text field 'ontology' of main's index
OntologyPosting(term) ==
    Get(Get(index.text, F.ontology, EmptyDict), term, EmptyDict)

\* the single entry of the pseudo-document, with count 1
OnePseudoEntry == [d \in {OntologyDocId} |-> 1]

\* the strings of the relationship entries: every subject and every object
RelationshipStrings(onto) ==
    UNION {UNION {{subj} \cup onto.relationships[p][subj] :
                     subj \in DOMAIN onto.relationships[p]} :
             p \in DOMAIN onto.relationships}

\* C23: after add_ontology_to_index the lower-cased class and property
\* labels, the tokens of the labels and the tokens of every relationship
\* subject and object have in 'ontology' the posting {-1: 1} and nothing
\* else, however often the term occurs in the ontology; applying
\* add_ontology_to_index again with the same ontology leaves the index as
\* it is
C23_OntologyOnceEach ==
    Augmented =>
        /\ \A cls \in ontology.classes : OntologyPosting(StrLower(cls)) = OnePseudoEntry
        /\ \A prop \in ontology.properties : OntologyPosting(StrLower(prop)) = OnePseudoEntry
        /\ \A s \in ontology.labels \cup RelationshipStrings(ontology) :
               \A t \in Range(simple_tokenize(PyStr(s))) :
                   OntologyPosting(t) = OnePseudoEntry
        /\ add_ontology_to_index(index, ontology) = index

\* an augmented index whose ontology has a term that is a token of two of
\* its relationship strings
C23_Witness ==
    /\ Augmented
    /\ \E s1, s2 \in RelationshipStrings(ontology) :
          /\ s1 # s2
          /\ W_warriors \in Range(simple_tokenize(PyStr(s1)))
          /\ W_warriors \in Range(simple_tokenize(PyStr(s2)))
    /\ OntologyPosting(W_warriors) = OnePseudoEntry


\* one step of the build run changes a posting, a numeric table or a
\* keyword list
PostingsChange == index' # index

\* one step assigns the IDF values and the norms
WeightsAssigned == idf' # idf \/ doc_norms' # doc_norms

\* one step writes a file
FileWritten == disk' # disk

\* C24: in the build run the postings change only in build_index and in
\* the ontology augmentation; the IDF values and the norms are assigned in
\* one step that starts when the index holds the 'ontology' field and the
\* document count is the number of rows plus one, and that leaves the
\* index as it is; a file is written only after that step, with the index,
\* the IDF values and the norms unchanged, and holds the object computed by
\* then
C24_BuildOrder ==
    [][/\ PostingsChange => pc \in {"start", "built"}
       /\ number_of_documents' # number_of_documents => pc \in {"start", "augmented"}
       /\ WeightsAssigned =>
              /\ pc = "counted" /\ pc' = "weighted"
              /\ F.ontology \in DOMAIN index.text
              /\ number_of_documents = Len(df) + 1
              /\ ~PostingsChange
       /\ FileWritten =>
              /\ pc = "weighted"
              /\ ~PostingsChange /\ ~WeightsAssigned
              /\ "idf.pkl" \in DOMAIN disk' \ DOMAIN disk => disk'["idf.pkl"] = idf
              /\ "doc_norms.pkl" \in DOMAIN disk' \ DOMAIN disk =>
                     disk'["doc_norms.pkl"] = doc_norms
       /\ pc' = "done" =>
              /\ disk'["index.pkl"] = index /\ disk'["idf.pkl"] = idf
              /\ disk'["doc_norms.pkl"] = doc_norms
              /\ disk'["doc_meta.pkl"] = doc_meta]_vars

\* a finished build run: the four files are written, the index has the
\* 'ontology' postings and the IDF values of a table with rows
C24_Witness ==
    /\ pc = "done"
    /\ DOMAIN disk = Range(OUT_FILES)
    /\ Len(df) >= 1
    /\ OntologyDocId \in TextDocIds(F.ontology)
    /\ \E f \in DOMAIN idf : DOMAIN idf[f] # {}
    /\ DOMAIN doc_norms # {}


\* expand_query_with_ontology has returned
Expanded == probe.op = "expand" /\ probe.done

\* the lower-cased term is a substring of the lower-cased subject or of a
\* lower-cased object of the entry
EntryMatches(p, subj) ==
    \/ IsSubstring(StrLower(probe.text), StrLower(subj))
    \/ \E o \in ontology.relationships[p][subj] :
           IsSubstring(StrLower(probe.text), StrLower(o))

\* C25: a string is in the list expand_query_with_ontology(term) returns
\* exactly when it is the subject or an object of a relationship entry, of
\* any predicate, in which the lower-cased term is a substring of the
\* lower-cased subject or of some lower-cased object; no string is in the
\* list twice
C25_ExpansionIsUnionOfMatchedEntries ==
    Expanded =>
        /\ \A p \in DOMAIN ontology.relationships :
               \A subj \in DOMAIN ontology.relationships[p] :
                   EntryMatches(p, subj) =>
                       {subj} \cup ontology.relationships[p][subj] \subseteq Range(probe.out)
        /\ \A s \in Range(probe.out) :
               \E p \in DOMAIN ontology.relationships :
                   \E subj \in DOMAIN ontology.relationships[p] :
                       /\ EntryMatches(p, subj)
                       /\ s \in {subj} \cup ontology.relationships[p][subj]
        /\ \A i, j \in 1..Len(probe.out) : probe.out[i] = probe.out[j] => i = j

\* 'curry' on the ontology of two predicates: one entry matches by its
\* subject, one only by an object, one not at all; the matched entries
\* share a string, and the list has a string without the term
C25_Witness ==
    /\ Expanded
    /\ ontology = OntologyB
    /\ probe.text = <<"c","u","r","r","y">>
    /\ \E p \in DOMAIN ontology.relationships :
          \E subj \in DOMAIN ontology.relationships[p] :
              /\ EntryMatches(p, subj)
              /\ ~IsSubstring(StrLower(probe.text), StrLower(subj))
    /\ \E p \in DOMAIN ontology.relationships :
          \E subj \in DOMAIN ontology.relationships[p] : ~EntryMatches(p, subj)
    /\ \E s \in Range(probe.out) : ~IsSubstring(StrLower(probe.text), StrLower(s))
    /\ Len(probe.out) = 3


\* the place of the document in the score accumulator: the order in which
\* the doc_ids first entered it
Discovery(doc_id) == IndexOfDoc(ret.scores, doc_id, 1)

\* C26: among returned results of equal final score the one that entered
\* the score accumulator first comes first, and a surviving candidate left
\* out by top_k whose final score equals that of a returned result entered
\* the accumulator after it; with the non-increasing order of the scores
\* this fixes the returned list for a query, its parameters and the loaded
\* artifacts
C26_TiesInDiscoveryOrder ==
    Answered =>
        /\ \A i \in 1..Len(ret.results) : \A j \in (i + 1)..Len(ret.results) :
               ret.results[i].cosine_score = ret.results[j].cosine_score =>
                   Discovery(ret.results[i].doc_id) < Discovery(ret.results[j].doc_id)
        /\ \A d \in Survivors \ ReturnedDocs : \A i \in 1..Len(ret.results) :
               FinalScore(d) = ret.results[i].cosine_score =>
                   Discovery(ret.results[i].doc_id) < Discovery(d)

\* two results of equal final score returned with the greater doc_id first,
\* as the accumulator has them
C26_Witness ==
    /\ Answered
    /\ Len(ret.results) = 2
    /\ ret.results[1].cosine_score = ret.results[2].cosine_score
    /\ ret.results[1].doc_id > ret.results[2].doc_id
    /\ Discovery(ret.results[1].doc_id) < Discovery(ret.results[2].doc_id)


\* the loaded index posts the term to the pseudo-document in 'ontology'
PostedToPseudoDocument(term) ==
    /\ F.ontology \in DOMAIN engine.self.index.text
    /\ term \in DOMAIN engine.self.index.text[F.ontology]
    /\ OntologyDocId \in DOMAIN engine.self.index.text[F.ontology][term]

\* C27: for every query against the artifacts of a build run the
\* pseudo-document -1 is not in the score accumulator, so the loop over the
\* accumulator never hands it to _passes_filters and no lookup of its
\* missing DocMeta row raises, and it is not in the returned list
C27_PseudoDocumentNeverCandidate ==
    Called =>
        /\ OntologyDocId \notin CandidateDocs
        /\ OntologyDocId \notin ReturnedDocs
        /\ ret.raised # "KeyError"

\* an answered query with a term the ontology posts to -1: 'james' is a
\* token of a label, and documents are returned for it
C27_Witness ==
    /\ Answered
    /\ call.query = QueryText.lebron_james
    /\ PostedToPseudoDocument(W_james)
    /\ OntologyDocId \notin DOMAIN engine.self.doc_meta
    /\ ret.results # <<>>


\* the document is a candidate the list does not return
LeftOut(doc_id) == doc_id \in CandidateDocs \ ReturnedDocs

\* C28: the numeric filters of a query are all applied, those of one field
\* included: every returned document satisfies each of them, and for
\* 'age:>26 age:<39' the parsed filters are the two on age and every
\* returned document has a recorded age strictly between 26 and 39 (the
\* recorded values are in hundredths)
C28_NumericFiltersConjoined ==
    Answered =>
        /\ \A d \in ReturnedDocs : \A i \in 1..Len(ret.components.numeric_filters) :
               SatisfiesNumeric(d, ret.components.numeric_filters[i])
        /\ call.query = QueryText.names_age_between =>
               /\ Len(ret.components.numeric_filters) = 2
               /\ \A i \in 1..2 : ret.components.numeric_filters[i].field = F.age
               /\ \A d \in ReturnedDocs :
                      /\ HasNumber(F.age, d)
                      /\ 2600 < NumberOf(F.age, d)
                      /\ NumberOf(F.age, d) < 3900

\* 'james jordan age:>26 age:<39' with a document returned, a candidate of
\* age 39 left out and a candidate of age 25.5 left out: each of the two
\* filters alone would have admitted one of them
C28_Witness ==
    /\ Answered
    /\ call.query = QueryText.names_age_between
    /\ ret.results # <<>>
    /\ \E d \in CandidateDocs :
          LeftOut(d) /\ HasNumber(F.age, d) /\ NumberOf(F.age, d) = 3900
    /\ \E d \in CandidateDocs :
          LeftOut(d) /\ HasNumber(F.age, d) /\ NumberOf(F.age, d) = 2550


\* the candidates that pass every filter of the query
PassingCandidates ==
    {d \in CandidateDocs : _passes_filters(engine.self, d, ret.components)}

\* C29: against the artifacts of a build run every document in the score
\* accumulator has a norm and the norm is strictly positive; the query norm
\* is strictly positive when the accumulator is not empty; every
\* accumulated score and every returned raw dot product is strictly
\* positive; and a candidate that passes the filters is left out of the
\* returned list only by top_k
C29_NormsPositive ==
    Called =>
        /\ \A d \in CandidateDocs :
               /\ d \in DOMAIN engine.self.doc_norms
               /\ engine.self.doc_norms[d] > 0
        /\ ret.scores # <<>> => ret.query_norm > 0
        /\ \A i \in 1..Len(ret.scores) : ret.scores[i].score > 0
        /\ \A i \in 1..Len(ret.results) : ret.results[i].tf_idf_score > 0
        /\ Answered =>
               \/ Len(ret.results) = call.top_k
               \/ ReturnedDocs = PassingCandidates

\* an answered query with two candidates, one of them removed by a filter
\* and the other returned with its norm and the query norm dividing its
\* score
C29_Witness ==
    /\ Answered
    /\ Cardinality(CandidateDocs) >= 2
    /\ PassingCandidates # CandidateDocs
    /\ ReturnedDocs = PassingCandidates
    /\ ret.results # <<>>
    /\ ret.query_norm > 0
    /\ ret.results[1].cosine_score =
           Cosine(ret.results[1].tf_idf_score,
                  engine.self.doc_norms[ret.results[1].doc_id], ret.query_norm)


\* search has returned for the call with the boost field and for the call
\* without one
Searched == probe.op = "search" /\ probe.done

\* the numeric table of the boost field in the loaded index, if the field
\* as written names one
BoostValues == Get(probe.out.self.index.numeric, probe.boost.field, EmptyDict)

\* the boost is disabled or inapplicable: the strength is 0, or the boost
\* field is not a numeric field of the index, or no recorded value of the
\* field is positive
Neutral ==
    \/ probe.boost.strength = 0
    \/ probe.boost.field \notin DOMAIN probe.out.self.index.numeric
    \/ \A d \in DOMAIN BoostValues : BoostValues[d] <= 0

\* C30: with boost_strength 0, or a boost field that is not a numeric field
\* of the index, or a numeric field without a positive recorded value (one
\* without any value included), search returns the list it returns without
\* a boost field: the same documents in the same order with the same scores
C30_BoostNeutral ==
    (Searched /\ Neutral) =>
        /\ probe.out.boosted.raised = ""
        /\ probe.out.boosted.results = probe.out.plain.results

\* the strength 0.15 on the field age, whose only recorded value is 0: two
\* documents are returned, one of them with that value
C30_Witness ==
    /\ Searched
    /\ probe.boost = [field |-> F.age, strength |-> 15]
    /\ DOMAIN BoostValues # {}
    /\ Neutral
    /\ Len(probe.out.boosted.results) = 2
    /\ \E i \in 1..2 : probe.out.boosted.results[i].doc_id \in DOMAIN BoostValues

=============================================================================
